---- MODULE Spec2Model ----
(***************************************************************************)
(* A model of lsql (alexandershov/lsql): the lexer and the parser of       *)
(* lsql/parser.py, the query construction and the tree-walking evaluator   *)
(* of lsql/ast.py, the NULL-propagating builtin operators, the top-level   *)
(* driver of lsql/main.py and the pyparsing evaluator of lsql/__init__.py. *)
(*                                                                         *)
(* The specifications share the variables:                                 *)
(*   Spec          main() -> run_query -> QueryNode.create -> get_value    *)
(*   SpecLex       Lexer.tokenize over bounded source strings              *)
(*   SpecOps       the sql_function wrappers of FUNCTIONS                  *)
(*   SpecAgg       an Aggregate object under add() and clear()             *)
(*   SpecWalk      DirectoryWalker.walk over a directory tree              *)
(*   SpecCond      the WHERE condition of lsql.run_query on one path       *)
(*   SpecInterval  Interval.__str__                                        *)
(*   SpecParser    Parser.expr over bounded lists of tokens                *)
(*   SpecParse     Parser.parse over bounded lists of clauses              *)
(*   SpecTwice     QueryNode.get_value called twice on one Query           *)
(***************************************************************************)
EXTENDS Integers, Sequences, FiniteSets, TLC

(***************************************************************************)
(* Bounds of the model.                                                    *)
(***************************************************************************)
\* longest row source (number of files the walker yields)
MaxRows == 3
\* longest source string the lexer is run on (besides the keyword inputs)
MaxLen == 4
\* largest integer argument handed to a builtin operator
MaxArg == 2
\* most add() calls on an Aggregate between two clear() calls
MaxAdds == 3
\* most names in the directory a walk starts from
MaxNames == 2

(***************************************************************************)
(* Runtime values.  A value is NULL, a number, +inf (the default LIMIT) or *)
(* a raised Python exception.  A number is the fraction n/d in lowest      *)
(* terms (d = 1 for an int; a float such as an AVG is its exact value).    *)
(* Python's bool is a subclass of int with True == 1 and False == 0, so    *)
(* booleans are the numbers 1 and 0.  Strings of the text column are       *)
(* abstracted to their rank in the string order.                           *)
(***************************************************************************)
NULL == [tag |-> "null", n |-> 0, d |-> 1]
Num(i) == [tag |-> "num", n |-> i, d |-> 1]
INF == [tag |-> "inf", n |-> 0, d |-> 1]
Raised(kind) == [tag |-> kind, n |-> 0, d |-> 1]
PyBool(b) == IF b THEN Num(1) ELSE Num(0)
\* None, the placeholder of a column not computed yet
NoneValue == [tag |-> "none", n |-> 0, d |-> 1]
IsRaised(v) == v.tag \notin {"null", "num", "inf", "none"}

\* Null.__nonzero__ is False; a number is truthy unless it is 0
Truthy(v) == v.tag = "inf" \/ (v.tag = "num" /\ v.n # 0)

\* x == y on runtime values: Null.__eq__ is identity of the singleton
PyEq(x, y) == x = y

\* x < y: Null.__lt__ always answers True; int.__lt__(NULL) is NotImplemented
\* and the reflected Null.__gt__ of total_ordering answers False
PyLt(x, y) ==
  IF x.tag = "null" THEN TRUE
  ELSE IF y.tag = "null" THEN FALSE
  ELSE IF x.tag = "inf" THEN FALSE
  ELSE IF y.tag = "inf" THEN TRUE
  ELSE x.n * y.d < y.n * x.d

\* x > y: Null.__gt__ of total_ordering is not (lt or eq): False; int.__gt__(NULL)
\* is NotImplemented and the reflected Null.__lt__ answers True
PyGt(x, y) ==
  IF x.tag = "null" THEN FALSE
  ELSE IF y.tag = "null" THEN TRUE
  ELSE IF y.tag = "inf" THEN FALSE
  ELSE IF x.tag = "inf" THEN TRUE
  ELSE x.n * y.d > y.n * x.d

\* x <= y: Null.__le__ of total_ordering is (lt or eq): True; int.__le__(NULL) is
\* NotImplemented and the reflected Null.__ge__ is not lt: False
PyLe(x, y) ==
  IF x.tag = "null" THEN TRUE
  ELSE IF y.tag = "null" THEN FALSE
  ELSE IF y.tag = "inf" THEN TRUE
  ELSE IF x.tag = "inf" THEN FALSE
  ELSE x.n * y.d <= y.n * x.d

(***************************************************************************)
(* Names.  Namespace.prepare_key is unicode.lower; the table covers the    *)
(* spellings the model's queries use.                                      *)
(***************************************************************************)
prepare_key(key) ==
  CASE key = "SIZE" -> "size"
    [] key = "Size" -> "size"
    [] key = "TEXT" -> "text"
    [] key = "SUM" -> "sum"
    [] key = "Max" -> "max"
    [] key = "COUNT" -> "count"
    [] OTHER -> key

\* the keys of AGGREGATES, a plain dict
AGGREGATES == {"count", "sum", "max", "min", "avg"}

\* Stat.get_type(): the columns of the file-stat row type
FilesTableType ==
  {"fullpath", "size", "owner", "path", "fulldir", "dir", "name", "extension",
   "no_ext", "mode", "group", "atime", "mtime", "ctime", "birthtime", "depth",
   "type", "device", "hardlinks", "inode", "text", "lines", "is_executable",
   "ext", "is_exec"}

\* key in from_type (Namespace.__contains__)
InFromType(key) == prepare_key(key) \in FilesTableType

\* the keys of FUNCTIONS that name scalar builtins
ScalarFunctions ==
  {"||", "+", "-", "*", "/", "negate", ">", ">=", "<", "<=", "=", "<>", "^", "%",
   "length", "in"}

(***************************************************************************)
(* AST nodes: Node(data, children); location and parent are not part of    *)
(* equality.  data is split into name (NameNode, FunctionNode), val        *)
(* (ValueNode; the direction of an OrderByPartNode) and agg (the identity  *)
(* of an AggFunctionNode's accumulator object).                            *)
(***************************************************************************)
ASC == 1
DESC == -1

Node(kind, name, val, agg, children) ==
  [kind |-> kind, name |-> name, val |-> val, agg |-> agg, children |-> children]
None == Node("None", "", NULL, <<>>, <<>>)
ValueNode(v) == Node("Value", "", v, <<>>, <<>>)
NameNode(s) == Node("Name", s, NULL, <<>>, <<>>)
FunctionNode(f, args) == Node("Function", f, NULL, <<>>, args)
AggFunctionNode(f, args, id) == Node("AggFunction", f, NULL, id, args)
AndNode(l, r) == Node("And", "", NULL, <<>>, <<l, r>>)
OrNode(l, r) == Node("Or", "", NULL, <<>>, <<l, r>>)
BetweenNode(value, first, last) == Node("Between", "", NULL, <<>>, <<value, first, last>>)
OrderByPartNode(node, direction) == Node("OrderByPart", "", Num(direction), <<>>, <<node>>)
SelectNode(children) == Node("Select", "", NULL, <<>>, children)
SelectStarNode == Node("SelectStar", "", NULL, <<>>, <<>>)
OrderNode(children) == Node("Order", "", NULL, <<>>, children)
GroupNode(children) == Node("Group", "", NULL, <<>>, children)
FakeGroupNode == Node("FakeGroup", "", NULL, <<>>, <<>>)

\* Node.__eq__: same class, equal data, equal children
NodeEq(a, b) == a.kind = b.kind /\ a.name = b.name /\ a.val = b.val /\ a.agg = b.agg
                /\ a.children = b.children

\* node in nodes, for a list of nodes
NodeIn(node, nodes) == \E i \in 1..Len(nodes) : NodeEq(nodes[i], node)

\* nodes.index(node)
NodeIndex(node, nodes) == CHOOSE i \in 1..Len(nodes) :
  NodeEq(nodes[i], node) /\ \A j \in 1..(i - 1) : ~NodeEq(nodes[j], node)

RECURSIVE Flatten(_)
Flatten(seqs) == IF seqs = <<>> THEN <<>> ELSE Head(seqs) \o Flatten(Tail(seqs))

\* Node.walk: the nodes of a tree in visiting order (children first), each as its
\* path of child indexes from the root; the parent links walk sets are the prefixes
RECURSIVE walk(_, _)
walk(node, path) ==
  Flatten([i \in 1..Len(node.children) |-> walk(node.children[i], Append(path, i))])
    \o <<path>>

RECURSIVE NodeAt(_, _)
NodeAt(root, path) ==
  IF path = <<>> THEN root ELSE NodeAt(root.children[Head(path)], Tail(path))

\* isinstance(node, FunctionNode): AggFunctionNode is a subclass
IsFunctionNode(node) == node.kind \in {"Function", "AggFunction"}

\* AggFunctionsVisitor + get_agg_function_nodes: the paths of the function nodes
\* whose function_name is a key of AGGREGATES
get_agg_function_nodes(node) ==
  SelectSeq(walk(node, <<>>),
            LAMBDA p : IsFunctionNode(NodeAt(node, p)) /\ NodeAt(node, p).name \in AGGREGATES)

has_agg_functions_nodes(node) == get_agg_function_nodes(node) # <<>>

\* TypeNodeVisitor + get_nodes_of_type
get_nodes_of_type(node, kind) ==
  SelectSeq(walk(node, <<>>), LAMBDA p : NodeAt(node, p).kind = kind)

\* a variant that looks at the parent only, not at the whole chain of ancestors
has_parent_of_type(root, path, kind) ==
  path # <<>> /\ NodeAt(root, SubSeq(path, 1, Len(path) - 1)).kind = kind

\* has_ancestor_of_type: some proper ancestor on the parent chain is of the class
has_ancestor_of_type(root, path, kind) ==
  \E k \in 0..(Len(path) - 1) : NodeAt(root, SubSeq(path, 1, k)).kind = kind

\* up_to_root: the node and its ancestors
up_to_root(root, path) == [k \in 1..(Len(path) + 1) |-> NodeAt(root, SubSeq(path, 1, Len(path) + 1 - k))]

(***************************************************************************)
(* Arithmetic of the operator module on numbers.                           *)
(***************************************************************************)
Abs(i) == IF i < 0 THEN -i ELSE i

RECURSIVE GCD(_, _)
GCD(a, b) == IF b = 0 THEN a ELSE GCD(b, a % b)

FloorDiv(a, b) == IF b > 0 THEN a \div b ELSE (-a) \div (-b)

\* the number n/d in lowest terms, d # 0
Frac(n, d) ==
  LET s == IF d < 0 THEN -1 ELSE 1
      g == GCD(Abs(n), Abs(d))
  IN [tag |-> "num", n |-> (s * n) \div g, d |-> (s * d) \div g]

IsInt(x) == x.d = 1

RECURSIVE IntPow(_, _)
IntPow(b, e) == IF e = 0 THEN 1 ELSE b * IntPow(b, e - 1)

\* operator.add / sub / mul / div / mod / pow / neg and the comparisons, applied
\* to numbers.  operator.div is classic division: floor division of two ints.
\* (An integral float operand of div, and a fractional exponent, are outside the
\* queries of the model.)
PyOperator(f, args) ==
  LET x == args[1]
      y == args[2]
  IN CASE f \in {"+", "||"} -> Frac(x.n * y.d + y.n * x.d, x.d * y.d)
       [] f = "-" -> Frac(x.n * y.d - y.n * x.d, x.d * y.d)
       [] f = "*" -> Frac(x.n * y.n, x.d * y.d)
       [] f = "/" -> IF y.n = 0 THEN Raised("ZeroDivisionError")
                     ELSE IF IsInt(x) /\ IsInt(y) THEN Num(FloorDiv(x.n, y.n))
                     ELSE Frac(x.n * y.d, x.d * y.n)
       [] f = "%" -> IF y.n = 0 THEN Raised("ZeroDivisionError")
                     ELSE LET q == FloorDiv(x.n * y.d, x.d * y.n)
                          IN Frac(x.n * y.d - q * y.n * x.d, x.d * y.d)
       [] f = "^" /\ IsInt(y) -> IF y.n >= 0 THEN Frac(IntPow(x.n, y.n), IntPow(x.d, y.n))
                                 ELSE IF x.n = 0 THEN Raised("ZeroDivisionError")
                                 ELSE Frac(IntPow(x.d, -y.n), IntPow(x.n, -y.n))
       [] f = "negate" -> Frac(-x.n, x.d)
       [] f = ">" -> PyBool(PyGt(x, y))
       [] f = ">=" -> PyBool(PyLe(y, x))
       [] f = "<" -> PyBool(PyLt(x, y))
       [] f = "<=" -> PyBool(PyLe(x, y))
       [] f = "=" -> PyBool(PyEq(x, y))
       [] f = "<>" -> PyBool(~PyEq(x, y))
       [] f \in {"length", "in"} -> Raised("TypeError")

\* a variant of the wrapper that looks at its first argument only
sql_function_first_arg(f, args) ==
  IF args # <<>> /\ args[1] = NULL THEN NULL ELSE PyOperator(f, args)

\* a variant of Lexer.tokenize that lets every token through
tokenize_with_whitespaces(tokens) == tokens

\* sql_function: the wrapper answers NULL when an argument is NULL and calls the
\* wrapped function otherwise
sql_function(f, args) ==
  IF \E i \in 1..Len(args) : args[i] = NULL THEN NULL ELSE PyOperator(f, args)

\* FunctionNode.function + call: FUNCTIONS[function_name] lowercases the key
CallFunction(function_name, args) ==
  IF prepare_key(function_name) \in ScalarFunctions
  THEN sql_function(prepare_key(function_name), args)
  ELSE Raised("KeyError")

(***************************************************************************)
(* Aggregate accumulators.                                                 *)
(***************************************************************************)
\* Aggregate.clear / __init__ of the five subclasses
NewAggregate(cls) == [cls |-> cls, count |-> 0, sum |-> Num(0), ext |-> NULL]

\* an accumulator that is left as it is
KeepAggregate(a) == a

\* AggFunctionNode.clear_aggregate: Aggregate.clear calls __init__ again
clear_aggregate(a) == NewAggregate(a.cls)

\* a variant of add that takes NULL for a value like any other
AggAddAnyValue(a, value) ==
  [a EXCEPT !.count = @ + 1,
            !.sum = IF value = NULL THEN @ ELSE PyOperator("+", <<@, value>>),
            !.ext = value]

\* Aggregate.add
AggAdd(a, value) ==
  IF value = NULL THEN a
  ELSE CASE a.cls = "count" -> [a EXCEPT !.count = @ + 1]
         [] a.cls = "sum" -> [a EXCEPT !.sum = PyOperator("+", <<@, value>>)]
         [] a.cls = "max" -> [a EXCEPT !.ext = IF @ = NULL THEN value
                                               ELSE IF PyLt(@, value) THEN value ELSE @]
         [] a.cls = "min" -> [a EXCEPT !.ext = IF @ = NULL THEN value
                                               ELSE IF PyLt(value, @) THEN value ELSE @]
         [] a.cls = "avg" -> [a EXCEPT !.sum = PyOperator("+", <<@, value>>),
                                       !.count = @ + 1]

\* Aggregate.value
AggValue(a) ==
  CASE a.cls = "count" -> Num(a.count)
    [] a.cls = "sum" -> a.sum
    [] a.cls \in {"max", "min"} -> a.ext
    [] a.cls = "avg" -> IF a.count = 0 THEN NULL ELSE Frac(a.sum.n, a.sum.d * a.count)

(***************************************************************************)
(* Contexts and expression evaluation.  A context is the list of its       *)
(* layers (CombinedContext); evaluation threads the accumulators, which    *)
(* AggFunctionNode.get_value mutates.                                      *)
(***************************************************************************)
\* the outer context of run_query; only null is read by the queries of the model
BUILTIN_CONTEXT == [null |-> NULL]

RECURSIVE ContextGet(_, _)
\* CombinedContext.__getitem__: the first layer that has the key
ContextGet(context, key) ==
  IF context = <<>> THEN Raised("KeyError")
  ELSE IF prepare_key(key) \in DOMAIN Head(context) THEN Head(context)[prepare_key(key)]
  ELSE ContextGet(Tail(context), key)

\* the last value of a list of results is an exception in flight
Raises(vals) == vals # <<>> /\ IsRaised(vals[Len(vals)])

\* whether the consumer of a sequence of operand values asks for no further one:
\* a list comprehension takes them all; all() stops at the first falsy value,
\* any() at the first truthy one; the chained comparison first <= value <= last
\* evaluates last only when first <= value holds
Stops(consumer, vals) ==
  /\ vals # <<>>
  /\ \/ consumer = "all" /\ ~Truthy(vals[Len(vals)])
     \/ consumer = "any" /\ Truthy(vals[Len(vals)])
     \/ consumer = "chain" /\ Len(vals) = 2 /\ ~PyLe(vals[1], vals[2])

\* the operand nodes of a node in the order get_value evaluates them, and the
\* construct that consumes their values
Operands(node) ==
  IF node.kind = "Between" THEN <<node.children[2], node.children[1], node.children[3]>>
  ELSE node.children

Consumer(node) ==
  CASE node.kind = "And" -> "all"
    [] node.kind = "Or" -> "any"
    [] node.kind = "Between" -> "chain"
    [] OTHER -> "list"

RECURSIVE get_value(_, _, _)
RECURSIVE get_values(_, _, _, _, _)

\* node.get_value(context) for the nodes in turn, after the values vals, until the
\* consumer stops or a call raises
get_values(nodes, consumer, context, aggs, vals) ==
  IF nodes = <<>> \/ Raises(vals) \/ Stops(consumer, vals) THEN [vals |-> vals, aggs |-> aggs]
  ELSE LET h == get_value(Head(nodes), context, aggs)
       IN get_values(Tail(nodes), consumer, context, h.aggs, Append(vals, h.val))

\* Node.get_value of every node class: the value, and the accumulators after the
\* AggFunctionNodes evaluated on the way have been fed
get_value(node, context, aggs) ==
  LET a == get_values(Operands(node), Consumer(node), context, aggs, <<>>)
      vals == a.vals
      fed == IF node.kind = "AggFunction"
             THEN [a.aggs EXCEPT ![node.agg] = AggAdd(@, vals[1])]
             ELSE a.aggs
  IN IF Raises(vals) THEN [val |-> vals[Len(vals)], aggs |-> a.aggs]
     ELSE [aggs |-> fed,
           val |->
             CASE node.kind = "Value" -> node.val
               [] node.kind = "Name" -> ContextGet(context, node.name)
               [] node.kind = "OrderByPart" -> vals[1]
               [] node.kind = "Function" -> CallFunction(node.name, vals)
               [] node.kind = "AggFunction" -> AggValue(fed[node.agg])
               [] node.kind = "And" -> PyBool(\A i \in 1..Len(vals) : Truthy(vals[i]))
               [] node.kind = "Or" -> PyBool(\E i \in 1..Len(vals) : Truthy(vals[i]))
               [] node.kind = "Between" ->
                    PyBool(Len(vals) = 3 /\ PyLe(vals[1], vals[2]) /\ PyLe(vals[2], vals[3]))]

(***************************************************************************)
(* QueryNode.create: the semantic rewrite.  A raw query is the record of   *)
(* the clause nodes the parser hands over (None for an absent clause).     *)
(***************************************************************************)
RawQuery(select_node, where_node, group_node, having_node, order_node, limit_node, offset_node) ==
  [select |-> select_node, from |-> None, where |-> where_node, group |-> group_node,
   having |-> having_node, order |-> order_node, limit |-> limit_node, offset |-> offset_node]

\* Stat.MAIN_ATTRS (star_columns) and default_columns
MAIN_ATTRS == <<"mode", "owner", "size", "mtime", "path">>
default_columns == <<"name">>

RECURSIVE transform(_, _)
\* Node.transform with AggFunctionsTransformer: a FunctionNode whose function_name
\* is a key of AGGREGATES becomes an AggFunctionNode with a fresh accumulator
\* (identified by the node's place, id); the children are transformed first
transform(node, id) ==
  LET transformed_children ==
        [i \in 1..Len(node.children) |-> transform(node.children[i], Append(id, i))]
      visited == IF IsFunctionNode(node) /\ node.name \in AGGREGATES
                 THEN AggFunctionNode(node.name, node.children, id)
                 ELSE node
  IN [visited EXCEPT !.children = transformed_children]

\* the children of select and order, chained
SelectAndOrderChildren(select_node, order_node) == select_node.children \o order_node.children

\* lines 859-865: the group node when GROUP BY is absent
DefaultGroup(select_node, having_node, order_node) ==
  IF \E i \in 1..Len(SelectAndOrderChildren(select_node, order_node)) :
       has_agg_functions_nodes(SelectAndOrderChildren(select_node, order_node)[i])
  THEN GroupNode(<<>>)
  ELSE IF having_node = None THEN FakeGroupNode
  ELSE GroupNode(<<>>)

QueryNodeCreate(r) ==
  LET from_node == IF r.from = None THEN FunctionNode("files", <<NameNode("cwd")>>)
                   ELSE IF r.from.kind \in {"Name", "Value"} THEN FunctionNode("files", <<r.from>>)
                   ELSE r.from
      select_node == IF r.select.kind = "SelectStar"
                     THEN SelectNode([i \in 1..Len(MAIN_ATTRS) |-> NameNode(MAIN_ATTRS[i])])
                     ELSE IF r.select = None
                     THEN SelectNode([i \in 1..Len(default_columns) |-> NameNode(default_columns[i])])
                     ELSE r.select
      where_node == IF r.where = None THEN ValueNode(PyBool(TRUE)) ELSE r.where
      order_node == IF r.order = None THEN OrderNode(<<>>) ELSE r.order
      limit_node == IF r.limit = None THEN ValueNode(INF) ELSE r.limit
      offset_node == IF r.offset = None THEN ValueNode(Num(0)) ELSE r.offset
      group_node == IF r.group = None THEN DefaultGroup(select_node, r.having, order_node)
                    ELSE r.group
      having_node == IF r.having = None THEN ValueNode(PyBool(TRUE)) ELSE r.having
  IN IF has_agg_functions_nodes(where_node)
     THEN [error |-> "LsqlEvalError"]
     ELSE IF has_agg_functions_nodes(group_node)
     THEN [error |-> "IllegalGroupBy"]
     ELSE [error |-> "",
           select |-> transform(select_node, <<1>>),
           from |-> from_node,
           where |-> where_node,
           group |-> group_node,
           having |-> transform(having_node, <<5>>),
           order |-> transform(order_node, <<6>>),
           limit |-> limit_node,
           offset |-> offset_node]

\* the accumulators AggFunctionNode.create made: one per lifted node
RECURSIVE AggNodes(_)
AggNodes(node) ==
  (IF node.kind = "AggFunction" THEN {node} ELSE {})
    \cup UNION {AggNodes(node.children[i]) : i \in 1..Len(node.children)}

QueryAggNodes(q) == AggNodes(q.select) \cup AggNodes(q.having) \cup AggNodes(q.order)

FreshAggregates(q) ==
  [id \in {a.agg : a \in QueryAggNodes(q)} |->
     NewAggregate((CHOOSE a \in QueryAggNodes(q) : a.agg = id).name)]

(***************************************************************************)
(* QueryNode.get_value, lines 913-931: the GROUP BY legality check.        *)
(***************************************************************************)
\* [self.select_node, self.having_node, self.order_node]
CheckedRoots(q) == <<q.select, q.having, q.order>>

\* name_nodes / agg_nodes: the nodes of a class in the three roots, each as
\* <<root index, path>>
CheckedNodes(q, kind) ==
  Flatten([r \in 1..3 |->
    [j \in 1..Len(get_nodes_of_type(CheckedRoots(q)[r], kind)) |->
       <<r, get_nodes_of_type(CheckedRoots(q)[r], kind)[j]>>]])

\* lines 923-927: the condition under which a name node raises
IllegalName(q, rp) ==
  LET root == CheckedRoots(q)[rp[1]]
      name_node == NodeAt(root, rp[2])
      chain == up_to_root(root, rp[2])
  IN /\ ~NodeIn(name_node, q.group.children)
     /\ InFromType(name_node.name)
     /\ ~has_ancestor_of_type(root, rp[2], "AggFunction")
     /\ \A k \in 1..Len(chain) : ~NodeIn(chain[k], q.group.children)

\* lines 928-931: an aggregate under an aggregate
NestedAgg(q, rp) == has_ancestor_of_type(CheckedRoots(q)[rp[1]], rp[2], "AggFunction")

\* the nodes IllegalGroupBy would be raised for, in the order the checks run
IllegalGroupByNodes(q) ==
  IF q.group.kind = "FakeGroup" THEN <<>>
  ELSE SelectSeq(CheckedNodes(q, "Name"), LAMBDA rp : IllegalName(q, rp))
         \o SelectSeq(CheckedNodes(q, "AggFunction"), LAMBDA rp : NestedAgg(q, rp))

(***************************************************************************)
(* lines 932-936: the row type (schema) of the result.                     *)
(***************************************************************************)
ColumnDefault(i) == <<"column_0", "column_1", "column_2", "column_3">>[i + 1]

\* get_name
get_name(node, default) == IF node.kind = "Name" THEN node.name ELSE default

\* node.get_type(select_context): "" when it answers, else the exception raised
get_type(node) ==
  CASE node.kind = "Name" ->
         IF InFromType(node.name) \/ prepare_key(node.name) \in DOMAIN BUILTIN_CONTEXT
         THEN "" ELSE "KeyError"
    [] node.kind = "Function" ->
         IF prepare_key(node.name) \in ScalarFunctions \cup {"files"} THEN "" ELSE "KeyError"
    [] node.kind \in {"And", "Or"} -> "NotImplementedError"
    [] OTHER -> ""

RECURSIVE RowTypeKeys(_, _)
\* the keys of the OrderedDict row_type after the first k select children: a key
\* set twice keeps its first place
RowTypeKeys(select_children, k) ==
  IF k = 0 THEN <<>>
  ELSE LET before == RowTypeKeys(select_children, k - 1)
           key == get_name(select_children[k], ColumnDefault(k - 1))
       IN IF \E j \in 1..Len(before) : before[j] = key THEN before ELSE Append(before, key)

\* the first exception get_type raises over the select children, "" if none
RowTypeError(select_children) ==
  IF \A i \in 1..Len(select_children) : get_type(select_children[i]) = "" THEN ""
  ELSE get_type(select_children[CHOOSE i \in 1..Len(select_children) :
                  /\ get_type(select_children[i]) # ""
                  /\ \A j \in 1..(i - 1) : get_type(select_children[j]) = ""])

(***************************************************************************)
(* OrderByKey and the final sort and slice, lines 1010-1015.               *)
(***************************************************************************)
\* the directions of the order children
Directions(order_node) == [i \in 1..Len(order_node.children) |-> order_node.children[i].val.n]

RECURSIVE KeyLtFrom(_, _, _, _)
\* OrderByKey.__lt__, from column i on
KeyLtFrom(dirs, x, y, i) ==
  IF i > Len(dirs) \/ i > Len(x) \/ i > Len(y) THEN FALSE
  ELSE IF PyEq(x[i], y[i]) THEN KeyLtFrom(dirs, x, y, i + 1)
  ELSE IF dirs[i] = ASC THEN PyLt(x[i], y[i])
  ELSE PyGt(x[i], y[i])

\* a variant of the comparison that takes every column as ascending
OrderByKeyAscLt(a, b) == KeyLtFrom([i \in 1..Len(a.dirs) |-> ASC], a.row, b.row, 1)

\* a variant of the slicing that cuts to the limit before it drops the offset
SlicedLimitFirst(rs, offset, limit) ==
  IF limit = INF THEN [error |-> "", rows |-> SubSeq(rs, offset.n + 1, Len(rs))]
  ELSE [error |-> "",
        rows |-> SubSeq(SubSeq(rs, 1, IF limit.n < Len(rs) THEN limit.n ELSE Len(rs)),
                        offset.n + 1, IF limit.n < Len(rs) THEN limit.n ELSE Len(rs))]

OrderByKeyLt(a, b) == KeyLtFrom(a.dirs, a.row, b.row, 1)

\* OrderByKey.__eq__
OrderByKeyEq(a, b) == a.row = b.row

\* list < list: decided by the first pair of unequal items, else by the lengths
ListLt(x, y) ==
  IF \E i \in 1..Len(x) : i <= Len(y) /\ ~PyEq(x[i], y[i])
  THEN LET i == CHOOSE i \in 1..Len(x) :
                  /\ i <= Len(y) /\ ~PyEq(x[i], y[i])
                  /\ \A j \in 1..(i - 1) : PyEq(x[j], y[j])
       IN PyLt(x[i], y[i])
  ELSE Len(x) < Len(y)

\* (key, row) < (key, row): tuples compare by their first unequal component
ZipItemLt(a, b) ==
  IF ~OrderByKeyEq(a.key, b.key) THEN OrderByKeyLt(a.key, b.key) ELSE ListLt(a.row, b.row)

\* sorted(): list.sort is stable, so item i comes after the items that are less
\* and after the earlier items that are not greater
SortedPosition(items, i) ==
  Cardinality({j \in 1..Len(items) :
                 \/ ZipItemLt(items[j], items[i])
                 \/ (j < i /\ ~ZipItemLt(items[i], items[j]))}) + 1

sorted(items) ==
  [p \in 1..Len(items) |-> items[CHOOSE i \in 1..Len(items) : SortedPosition(items, i) = p]]

\* zip(keys, rows)
Zip(ks, rs) ==
  [i \in 1..(IF Len(ks) < Len(rs) THEN Len(ks) ELSE Len(rs)) |-> [key |-> ks[i], row |-> rs[i]]]

\* line 1010: rows = [row for _, row in sorted(zip(keys, rows))]
SortedRows(ks, rs) ==
  LET pairs == sorted(Zip(ks, rs))
  IN [i \in 1..Len(pairs) |-> pairs[i].row]

\* the start of rows[i:] / the end of rows[:i] for an int i
SliceIndex(i, len) ==
  IF i < 0 THEN (IF len + i < 0 THEN 0 ELSE len + i)
  ELSE IF i > len THEN len ELSE i

\* lines 1011-1014: offset then limit; a slice index that is no int is a TypeError
Sliced(rs, offset, limit) ==
  IF ~(offset.tag = "num" /\ IsInt(offset)) THEN [error |-> "TypeError", rows |-> <<>>]
  ELSE LET dropped == SubSeq(rs, SliceIndex(offset.n, Len(rs)) + 1, Len(rs))
       IN IF limit = INF THEN [error |-> "", rows |-> dropped]
          ELSE IF ~(limit.tag = "num" /\ IsInt(limit)) THEN [error |-> "TypeError", rows |-> <<>>]
          ELSE [error |-> "", rows |-> SubSeq(dropped, 1, SliceIndex(limit.n, Len(dropped)))]

(***************************************************************************)
(* The state.                                                              *)
(***************************************************************************)
VARIABLES
  \* inputs of main: the exception tokenize/parse raises for the query string
  \* (NoExc when it parses), the clauses it parses to, the rows the directory
  \* walker yields, whether the directory exists
  frontend, raw, from_rows, dir_exists,
  \* main: its position, the exception in flight, the code it returned
  pc, exc, ret,
  \* QueryNode: the created query and the accumulators of its AggFunctionNodes
  query, aggs,
  \* locals of QueryNode.get_value
  row_type, fi, filtered_rows, keys, rows, grouped, todo, cur, ri, cur_row,
  order_row, cond, table,
  \* Lexer.tokenize_with_whitespaces: the string, the position, the tokens
  \* yielded so far, the error raised
  lx_string, lx_start, lx_tokens, lx_error,
  \* a call of a builtin of FUNCTIONS: its name, the arguments, the number of
  \* arguments the wrapper has looked at, the result and the number of calls of
  \* the wrapped function
  op_name, op_args, op_i, op_result, op_calls,
  \* an Aggregate object: its class and attributes, and the values add() was
  \* called with since the last clear()
  ag, ag_added,
  \* DirectoryWalker.walk: the directory tree it is run on, the frames of the
  \* nested generators, the (path, depth) pairs yielded so far, forbidden_paths,
  \* the exception that left the walk
  wk_root, wk_stack, wk_yielded, wk_forbidden, wk_error,
  \* lsql.run_query on one path: the Stat of the path, tokens.condition, the
  \* simple condition eval_condition has reached, whether the Stat was appended
  cd_stat, cd_condition, cd_i, cd_kept,
  \* Interval.__str__: self, and the locals total_seconds, the index of the
  \* loop over parts, human_parts, and the returned string
  iv_self, iv_total_seconds, iv_i, iv_human_parts, iv_str,
  \* Parser.expr on a list of tokens: _tokens, _index, the node returned and
  \* the exception raised
  ps_tokens, ps_index, ps_node, ps_error,
  \* Parser.parse on a list of tokens: _tokens, _index, the number of the clause
  \* _get_clause is called for next, the clause nodes so far, the exception
  \* raised and what QueryNode.create returned
  pq_tokens, pq_index, pq_clause, pq_raw, pq_error, pq_query,
  \* a second call of get_value on the same Query: the number of the call and
  \* the Table the first call returned
  re_call, re_first

inputVars == <<frontend, raw, from_rows, dir_exists>>
mainVars == <<pc, exc, ret>>
evalVars == <<query, aggs, row_type, fi, filtered_rows, keys, rows, grouped, todo, cur, ri,
              cur_row, order_row, cond, table>>
lexVars == <<lx_string, lx_start, lx_tokens, lx_error>>
opVars == <<op_name, op_args, op_i, op_result, op_calls>>
aggVars == <<ag, ag_added>>
walkVars == <<wk_root, wk_stack, wk_yielded, wk_forbidden, wk_error>>
condVars == <<cd_stat, cd_condition, cd_i, cd_kept>>
ivVars == <<iv_self, iv_total_seconds, iv_i, iv_human_parts, iv_str>>
psVars == <<ps_tokens, ps_index, ps_node, ps_error>>
pqVars == <<pq_tokens, pq_index, pq_clause, pq_raw, pq_error, pq_query>>
reVars == <<re_call, re_first>>
unitVars == <<aggVars, walkVars, condVars, ivVars, psVars, pqVars, reVars>>
coreVars == <<inputVars, mainVars, evalVars, lexVars, opVars>>
\* what the steps of an Aggregate leave alone, and the steps of a walk, of
\* run_query, of Interval.__str__, of Parser.expr, of Parser.parse
aggRest == <<coreVars, walkVars, condVars, ivVars, psVars, pqVars, reVars>>
walkRest == <<coreVars, aggVars, condVars, ivVars, psVars, pqVars, reVars>>
condRest == <<coreVars, aggVars, walkVars, ivVars, psVars, pqVars, reVars>>
ivRest == <<coreVars, aggVars, walkVars, condVars, psVars, pqVars, reVars>>
psRest == <<coreVars, aggVars, walkVars, condVars, ivVars, pqVars, reVars>>
pqRest == <<coreVars, aggVars, walkVars, condVars, ivVars, psVars, reVars>>
vars == <<inputVars, mainVars, evalVars, lexVars, opVars, unitVars>>

(***************************************************************************)
(* Exceptions in flight.                                                   *)
(***************************************************************************)
\* an exception: its class, the expected_token_class of an UnexpectedTokenError
\* ("None" when it was raised with None), whether the actual token is the
\* EndQueryToken, and whether the query string has a quote at a CantTokenizeError's pos
Exception(kind, expected, actual_end, at_quote) ==
  [kind |-> kind, expected |-> expected, actual_end |-> actual_end, at_quote |-> at_quote]
NoExc == Exception("", "", FALSE, FALSE)
Raise(kind) == Exception(kind, "", FALSE, FALSE)

(***************************************************************************)
(* QueryNode.get_value, step by step.                                      *)
(***************************************************************************)
\* CombinedContext(row.get_context(), context)
RowContext(row) == <<row, BUILTIN_CONTEXT>>
OuterContext == <<BUILTIN_CONTEXT>>

\* the exception a raised value stands for
RaiseValue(v) == Raise(v.tag)

\* `node in self.group_node` (line 981): group_node is a namedtuple, so the test
\* compares node with its four fields data, children, location and parent; none
\* of them is a Node, and Node.__eq__ answers False
NodeInGroupTuple(node, group_node) == FALSE

RECURSIVE group_columns(_, _, _, _, _, _)
\* lines 980-993: the columns of the select children (is_order = FALSE) or of the
\* order children (is_order = TRUE) for one row of a group, after the columns vals
group_columns(nodes, is_order, group_node, key, context, st) ==
  IF nodes = <<>> \/ Raises(st.vals) THEN st
  ELSE LET node == Head(nodes)
           from_key == IF is_order THEN NodeIn(node.children[1], group_node.children)
                       ELSE NodeInGroupTuple(node, group_node)
           h == IF from_key
                THEN [val |-> key[NodeIndex(IF is_order THEN node.children[1] ELSE node,
                                            group_node.children)],
                      aggs |-> st.aggs]
                ELSE get_value(node, context, st.aggs)
       IN group_columns(Tail(nodes), is_order, group_node, key, context,
                        [vals |-> Append(st.vals, h.val), aggs |-> h.aggs])

\* an exception leaves get_value
Throw(e) ==
  /\ exc' = e
  /\ pc' = "except"
  /\ UNCHANGED ret

\* where execution goes after the filter loop
AfterFilter(q, n_filtered) ==
  IF q.group.kind # "FakeGroup" THEN "group"
  ELSE IF n_filtered = 0 THEN "sort" ELSE "project"

\* main.run_query, lines 240-244: tokenize and parse; parse ends in QueryNode.create
Parse ==
  /\ pc = "main"
  /\ IF frontend # NoExc
     THEN Throw(frontend) /\ UNCHANGED evalVars
     ELSE LET c == QueryNodeCreate(raw)
          IN IF c.error # ""
             THEN Throw(Raise(c.error)) /\ UNCHANGED evalVars
             ELSE /\ query' = c
                  /\ aggs' = FreshAggregates(c)
                  /\ pc' = "check"
                  /\ UNCHANGED <<exc, ret, row_type, fi, filtered_rows, keys, rows, grouped,
                                 todo, cur, ri, cur_row, order_row, cond, table>>
  /\ UNCHANGED <<inputVars, lexVars, opVars, unitVars>>

\* get_value lines 913-931
CheckGroupBy ==
  /\ pc = "check"
  /\ IF IllegalGroupByNodes(query) # <<>>
     THEN Throw(Raise("IllegalGroupBy"))
     ELSE pc' = "row_type" /\ UNCHANGED <<exc, ret>>
  /\ UNCHANGED <<inputVars, evalVars, lexVars, opVars, unitVars>>

\* get_value lines 932-936
RowType ==
  /\ pc = "row_type"
  /\ IF RowTypeError(query.select.children) # ""
     THEN Throw(Raise(RowTypeError(query.select.children))) /\ UNCHANGED row_type
     ELSE /\ row_type' = RowTypeKeys(query.select.children, Len(query.select.children))
          /\ pc' = "rows"
          /\ UNCHANGED <<exc, ret>>
  /\ UNCHANGED <<query, aggs, fi, filtered_rows, keys, rows, grouped, todo, cur, ri, cur_row,
                 order_row, cond, table>>
  /\ UNCHANGED <<inputVars, lexVars, opVars, unitVars>>

\* line 947: the from rows are asked for; DirectoryWalker.walk lists the directory
StartRows ==
  /\ pc = "rows"
  /\ IF ~dir_exists
     THEN Throw(Raise("DirectoryDoesNotExistError"))
     ELSE /\ pc' = IF from_rows = <<>> THEN AfterFilter(query, 0) ELSE "filter"
          /\ UNCHANGED <<exc, ret>>
  /\ UNCHANGED <<inputVars, evalVars, lexVars, opVars, unitVars>>

\* lines 947-954, one from row
FilterRow ==
  /\ pc = "filter"
  /\ fi < Len(from_rows)
  /\ LET from_row == from_rows[fi + 1]
         w == get_value(query.where, RowContext(from_row), aggs)
         k == get_values(query.order.children, "list", RowContext(from_row), w.aggs, <<>>)
         last == fi + 1 = Len(from_rows)
     IN /\ fi' = fi + 1
        /\ IF IsRaised(w.val)
           THEN Throw(RaiseValue(w.val)) /\ aggs' = w.aggs /\ UNCHANGED <<keys, filtered_rows>>
           ELSE IF ~Truthy(w.val)
           THEN /\ aggs' = w.aggs
                /\ UNCHANGED <<keys, filtered_rows, exc, ret>>
                /\ pc' = IF last THEN AfterFilter(query, Len(filtered_rows)) ELSE "filter"
           ELSE IF Raises(k.vals)
           THEN /\ Throw(RaiseValue(k.vals[Len(k.vals)]))
                /\ aggs' = k.aggs
                /\ UNCHANGED <<keys, filtered_rows>>
           ELSE /\ aggs' = k.aggs
                /\ keys' = Append(keys, [row |-> k.vals, dirs |-> Directions(query.order)])
                /\ filtered_rows' = Append(filtered_rows, from_row)
                /\ UNCHANGED <<exc, ret>>
                /\ pc' = IF last THEN AfterFilter(query, Len(filtered_rows) + 1) ELSE "filter"
  /\ UNCHANGED <<query, row_type, rows, grouped, todo, cur, ri, cur_row, order_row, cond, table>>
  /\ UNCHANGED <<inputVars, lexVars, opVars, unitVars>>

\* a grouping that gives every row a group of its own
GroupedByEachRow(q, frows, acc) ==
  [groups |-> [i \in 1..Len(frows) |->
                 [key |-> get_values(q.group.children, "list", RowContext(frows[i]),
                                     <<>>, <<>>).vals,
                  rows |-> <<frows[i]>>]],
   raised |-> NoneValue]

RECURSIVE GroupedBy(_, _, _)
\* lines 959-967: grouped[key].append(row) for the rows from the k-th on; groups
\* are kept in the order their keys first occur.  No aggregate is in GROUP BY, so
\* the accumulators are not touched.
GroupedBy(q, frows, acc) ==
  IF frows = <<>> THEN [groups |-> acc, raised |-> NoneValue]
  ELSE LET kv == get_values(q.group.children, "list", RowContext(Head(frows)), <<>>, <<>>)
       IN IF Raises(kv.vals) THEN [groups |-> acc, raised |-> kv.vals[Len(kv.vals)]]
          ELSE IF \E g \in 1..Len(acc) : acc[g].key = kv.vals
          THEN GroupedBy(q, Tail(frows),
                 [acc EXCEPT ![CHOOSE g \in 1..Len(acc) : acc[g].key = kv.vals].rows =
                    Append(@, Head(frows))])
          ELSE GroupedBy(q, Tail(frows), Append(acc, [key |-> kv.vals, rows |-> <<Head(frows)>>]))

\* lines 956-967
GroupRows ==
  /\ pc = "group"
  /\ LET g == GroupedBy(query, filtered_rows, <<>>)
     IN IF IsRaised(g.raised)
        THEN Throw(RaiseValue(g.raised)) /\ UNCHANGED <<keys, grouped, todo>>
        ELSE /\ keys' = <<>>
             /\ grouped' = g.groups
             /\ todo' = 1..Len(g.groups)
             /\ pc' = IF g.groups = <<>> THEN "sort" ELSE "groups"
             /\ UNCHANGED <<exc, ret>>
  /\ UNCHANGED <<query, aggs, row_type, fi, filtered_rows, rows, cur, ri, cur_row, order_row,
                 cond, table>>
  /\ UNCHANGED <<inputVars, lexVars, opVars, unitVars>>

\* lines 969-974: the next group, in the order the dict hands the keys out (any
\* order); every accumulator of the query is cleared
BeginGroup ==
  /\ pc = "groups"
  /\ \E g \in todo :
       /\ cur' = g
       /\ todo' = todo \ {g}
  /\ aggs' = [id \in DOMAIN aggs |-> clear_aggregate(aggs[id])]
  /\ cur_row' = [i \in 1..Len(query.select.children) |-> NoneValue]
  /\ order_row' = [i \in 1..Len(query.order.children) |-> NoneValue]
  /\ cond' = PyBool(FALSE)
  /\ ri' = 0
  /\ pc' = "consume"
  /\ UNCHANGED <<exc, ret, query, row_type, fi, filtered_rows, keys, rows, grouped, table>>
  /\ UNCHANGED <<inputVars, lexVars, opVars, unitVars>>

\* lines 975-994, one row of the group
ConsumeRow ==
  /\ pc = "consume"
  /\ ri < Len(grouped[cur].rows)
  /\ LET context == RowContext(grouped[cur].rows[ri + 1])
         key == grouped[cur].key
         s == group_columns(query.select.children, FALSE, query.group, key, context,
                            [vals |-> <<>>, aggs |-> aggs])
         o == group_columns(query.order.children, TRUE, query.group, key, context,
                            [vals |-> <<>>, aggs |-> s.aggs])
         h == get_value(query.having, context, o.aggs)
     IN /\ ri' = ri + 1
        /\ IF Raises(s.vals)
           THEN /\ Throw(RaiseValue(s.vals[Len(s.vals)]))
                /\ aggs' = s.aggs
                /\ UNCHANGED <<cur_row, order_row, cond>>
           ELSE IF Raises(o.vals)
           THEN /\ Throw(RaiseValue(o.vals[Len(o.vals)]))
                /\ aggs' = o.aggs
                /\ cur_row' = s.vals
                /\ UNCHANGED <<order_row, cond>>
           ELSE IF IsRaised(h.val)
           THEN /\ Throw(RaiseValue(h.val))
                /\ aggs' = h.aggs
                /\ cur_row' = s.vals
                /\ order_row' = o.vals
                /\ UNCHANGED cond
           ELSE /\ aggs' = h.aggs
                /\ cur_row' = s.vals
                /\ order_row' = o.vals
                /\ cond' = h.val
                /\ UNCHANGED <<pc, exc, ret>>
  /\ UNCHANGED <<query, row_type, fi, filtered_rows, keys, rows, grouped, todo, cur, table>>
  /\ UNCHANGED <<inputVars, lexVars, opVars, unitVars>>

\* lines 995-997: the group's row is kept when the last having value is truthy
EndGroup ==
  /\ pc = "consume"
  /\ ri = Len(grouped[cur].rows)
  /\ IF Truthy(cond)
     THEN /\ rows' = Append(rows, cur_row)
          /\ keys' = Append(keys, [row |-> order_row, dirs |-> Directions(query.order)])
     ELSE UNCHANGED <<rows, keys>>
  /\ pc' = IF todo = {} THEN "sort" ELSE "groups"
  /\ UNCHANGED <<exc, ret, query, aggs, row_type, fi, filtered_rows, grouped, todo, cur, ri,
                 cur_row, order_row, cond, table>>
  /\ UNCHANGED <<inputVars, lexVars, opVars, unitVars>>

\* lines 999-1008, one filtered row when there is no grouping
ProjectRow ==
  /\ pc = "project"
  /\ ri < Len(filtered_rows)
  /\ LET s == get_values(query.select.children, "list", RowContext(filtered_rows[ri + 1]),
                          aggs, <<>>)
     IN /\ ri' = ri + 1
        /\ aggs' = s.aggs
        /\ IF Raises(s.vals)
           THEN Throw(RaiseValue(s.vals[Len(s.vals)])) /\ UNCHANGED rows
           ELSE /\ rows' = Append(rows, s.vals)
                /\ pc' = IF ri + 1 = Len(filtered_rows) THEN "sort" ELSE "project"
                /\ UNCHANGED <<exc, ret>>
  /\ UNCHANGED <<query, row_type, fi, filtered_rows, keys, grouped, todo, cur, cur_row,
                 order_row, cond, table>>
  /\ UNCHANGED <<inputVars, lexVars, opVars, unitVars>>

\* lines 1010-1015: sort, offset, limit, Table(row_type, rows).  The variable rows
\* keeps the list the projection built; the sorted and sliced list is table.rows.
SortAndSlice ==
  /\ pc = "sort"
  /\ LET o == get_value(query.offset, OuterContext, aggs)
         l == get_value(query.limit, OuterContext, aggs)
         r == Sliced(SortedRows(keys, rows), o.val, l.val)
     IN IF IsRaised(o.val) THEN Throw(RaiseValue(o.val)) /\ UNCHANGED table
        ELSE IF IsRaised(l.val) THEN Throw(RaiseValue(l.val)) /\ UNCHANGED table
        ELSE IF r.error # "" THEN Throw(Raise(r.error)) /\ UNCHANGED table
        ELSE /\ table' = [row_type |-> row_type, rows |-> r.rows]
             /\ pc' = "show"
             /\ UNCHANGED <<exc, ret>>
  /\ UNCHANGED <<query, aggs, row_type, fi, filtered_rows, keys, rows, grouped, todo, cur, ri,
                 cur_row, order_row, cond>>
  /\ UNCHANGED <<inputVars, lexVars, opVars, unitVars>>

(***************************************************************************)
(* main: printing the table and the except clauses.                        *)
(***************************************************************************)
SUCCESS_CODE == 0
FAILURE_CODE == 1

\* main lines 121-122 with _show_table: Table.__iter__ makes a namedtuple of the
\* row_type keys and _make()s every row, a TypeError when a row's length differs
ShowTable ==
  /\ pc = "show"
  /\ IF \E i \in 1..Len(table.rows) : Len(table.rows[i]) # Len(table.row_type)
     THEN Throw(Raise("TypeError"))
     ELSE /\ ret' = <<SUCCESS_CODE>>
          /\ pc' = "exit"
          /\ UNCHANGED exc
  /\ UNCHANGED <<inputVars, evalVars, lexVars, opVars, unitVars>>

\* an except clause that shows a message and falls through to return FAILURE_CODE
Handled ==
  /\ ret' = <<FAILURE_CODE>>
  /\ pc' = "exit"
  /\ UNCHANGED <<exc, inputVars, evalVars, lexVars, opVars, unitVars>>

\* main lines 123-130
ExceptCantTokenizeError == pc = "except" /\ exc.kind = "CantTokenizeError" /\ Handled

\* main lines 131-137
ExceptUnknownLiteralSuffixError ==
  pc = "except" /\ exc.kind = "UnknownLiteralSuffixError" /\ Handled

\* main lines 138-147
ExceptNotImplementedTokenError ==
  pc = "except" /\ exc.kind = "NotImplementedTokenError" /\ Handled

\* main lines 148-156: both branches call exc.expected_token_class.get_human_name(),
\* an AttributeError raised inside the handler when the class is None
ExceptUnexpectedTokenError ==
  /\ pc = "except"
  /\ exc.kind = "UnexpectedTokenError"
  /\ IF exc.expected = "None"
     THEN /\ exc' = Raise("AttributeError")
          /\ pc' = "propagated"
          /\ UNCHANGED <<ret, inputVars, evalVars, lexVars, opVars, unitVars>>
     ELSE Handled

\* main lines 157-160
ExceptOperatorExpectedError == pc = "except" /\ exc.kind = "OperatorExpectedError" /\ Handled

\* main lines 161-164
ExceptValueExpectedError == pc = "except" /\ exc.kind = "ValueExpectedError" /\ Handled

\* main lines 165-168
ExceptUnexpectedEndError == pc = "except" /\ exc.kind = "UnexpectedEndError" /\ Handled

\* main lines 169-170
ExceptDirectoryDoesNotExistError ==
  pc = "except" /\ exc.kind = "DirectoryDoesNotExistError" /\ Handled

\* the classes main's except clauses name; none is a base class of another error
CaughtKinds ==
  {"CantTokenizeError", "UnknownLiteralSuffixError", "NotImplementedTokenError",
   "UnexpectedTokenError", "OperatorExpectedError", "ValueExpectedError",
   "UnexpectedEndError", "DirectoryDoesNotExistError"}

\* no except clause matches: the exception leaves main
Propagate ==
  /\ pc = "except"
  /\ exc.kind \notin CaughtKinds
  /\ pc' = "propagated"
  /\ UNCHANGED <<exc, ret, inputVars, evalVars, lexVars, opVars, unitVars>>

(***************************************************************************)
(* Inputs of main: the rows of the directory and the query.                *)
(***************************************************************************)
\* the Stat rows the walker yields, cut down to the columns size and text
\* (text is NULL for a file that cannot be read)
FromRows == {[size |-> Num(s), text |-> t] : s \in 0..1, t \in {NULL, Num(0)}}

\* the row streams of up to MaxRows rows
RowStreams == UNION {[1..n -> FromRows] : n \in 0..MaxRows}

\* what the tokens of the model's queries parse to (Token.prefix / suffix)
size == NameNode("size")
text == NameNode("text")
one == ValueNode(Num(1))
zero == ValueNode(Num(0))
count_star == FunctionNode("count", <<one>>)
Op(operator_name, left, right) == FunctionNode(operator_name, <<left, right>>)
Fn(function_name, arg) == FunctionNode(function_name, <<arg>>)
Asc(node) == OrderByPartNode(node, ASC)
Desc(node) == OrderByPartNode(node, DESC)
Select(children) == RawQuery(SelectNode(children), None, None, None, None, None, None)

\* queries without GROUP BY, HAVING or aggregates
PlainQueries ==
  { \* select size
    Select(<<size>>),
    \* select size, text order by text
    [Select(<<size, text>>) EXCEPT !.order = OrderNode(<<Asc(text)>>)],
    \* select size order by text
    [Select(<<size>>) EXCEPT !.order = OrderNode(<<Asc(text)>>)],
    \* select text order by size desc
    [Select(<<text>>) EXCEPT !.order = OrderNode(<<Desc(size)>>)],
    \* select text order by text desc
    [Select(<<text>>) EXCEPT !.order = OrderNode(<<Desc(text)>>)],
    \* select size, size
    Select(<<size, size>>),
    \* select size, text order by size desc, text
    [Select(<<size, text>>) EXCEPT !.order = OrderNode(<<Desc(size), Asc(text)>>)],
    \* select size order by size limit 2 offset 2
    [Select(<<size>>) EXCEPT !.order = OrderNode(<<Asc(size)>>),
                             !.limit = ValueNode(Num(2)), !.offset = ValueNode(Num(2))],
    \* select text limit 0
    [Select(<<text>>) EXCEPT !.limit = zero],
    \* select size, text order by size, text desc limit 1 offset 1
    [Select(<<size, text>>) EXCEPT !.order = OrderNode(<<Asc(size), Desc(text)>>),
                                   !.limit = one, !.offset = one],
    \* select size where size between text and 1
    [Select(<<size>>) EXCEPT !.where = BetweenNode(size, text, one)],
    \* select size where text between null and 0
    [Select(<<size>>) EXCEPT !.where = BetweenNode(text, ValueNode(NULL), zero)],
    \* select size where 0 between size and text
    [Select(<<size>>) EXCEPT !.where = BetweenNode(zero, size, text)],
    \* select size where size = 1 and text = 0
    [Select(<<size>>) EXCEPT !.where = AndNode(Op("=", size, one), Op("=", text, zero))],
    \* select size where size = 1 or text = 0
    [Select(<<size>>) EXCEPT !.where = OrNode(Op("=", size, one), Op("=", text, zero))],
    \* select size / size
    Select(<<Op("/", size, size)>>),
    \* select size + text, SIZE
    Select(<<Op("+", size, text), NameNode("SIZE")>>),
    \* select size and text
    Select(<<AndNode(size, text)>>),
    \* select size limit null
    [Select(<<size>>) EXCEPT !.limit = ValueNode(NULL)],
    \* select size where SUM(size) = 1
    [Select(<<size>>) EXCEPT !.where = Op("=", Fn("SUM", size), one)],
    \* select size where count(*) = 1
    [Select(<<size>>) EXCEPT !.where = Op("=", count_star, one)],
    \* select SUM(size)
    Select(<<Fn("SUM", size)>>) }

\* queries with GROUP BY, HAVING or aggregates
GroupQueries ==
  { \* select count(*)
    Select(<<count_star>>),
    \* select count(*), count(*)
    Select(<<count_star, count_star>>),
    \* select size, count(*) group by size
    [Select(<<size, count_star>>) EXCEPT !.group = GroupNode(<<size>>)],
    \* select size, count(*) group by size order by size desc
    [Select(<<size, count_star>>) EXCEPT !.group = GroupNode(<<size>>),
                                         !.order = OrderNode(<<Desc(size)>>)],
    \* select size group by size having size = 1 and count(*) = 1
    [Select(<<size>>) EXCEPT !.group = GroupNode(<<size>>),
                             !.having = AndNode(Op("=", size, one), Op("=", count_star, one))],
    \* select size group by size having size = 0 or count(*) > 1
    [Select(<<size>>) EXCEPT !.group = GroupNode(<<size>>),
                             !.having = OrNode(Op("=", size, zero), Op(">", count_star, one))],
    \* select count(*) having 1 between 2 and count(*)
    [Select(<<count_star>>) EXCEPT !.having = BetweenNode(one, ValueNode(Num(2)), count_star)],
    \* select count(*) having count(*) > 1
    [Select(<<count_star>>) EXCEPT !.having = Op(">", count_star, one)],
    \* select sum(size) group by text
    [Select(<<Fn("sum", size)>>) EXCEPT !.group = GroupNode(<<text>>)],
    \* select SUM(size) group by text
    [Select(<<Fn("SUM", size)>>) EXCEPT !.group = GroupNode(<<text>>)],
    \* select Max(size)
    Select(<<Fn("Max", size)>>),
    \* select sum(size + 1) group by text
    [Select(<<Fn("sum", Op("+", size, one))>>) EXCEPT !.group = GroupNode(<<text>>)],
    \* select avg(size), min(size), max(size) group by text
    [Select(<<Fn("avg", size), Fn("min", size), Fn("max", size)>>)
       EXCEPT !.group = GroupNode(<<text>>)],
    \* select count(text) group by size order by count(text) desc
    [Select(<<Fn("count", text)>>) EXCEPT !.group = GroupNode(<<size>>),
                                          !.order = OrderNode(<<Desc(Fn("count", text))>>)],
    \* select text, count(*) group by text order by text
    [Select(<<text, count_star>>) EXCEPT !.group = GroupNode(<<text>>),
                                         !.order = OrderNode(<<Asc(text)>>)],
    \* select SIZE group by size
    [Select(<<NameNode("SIZE")>>) EXCEPT !.group = GroupNode(<<size>>)],
    \* select size + 1 group by size + 1
    [Select(<<Op("+", size, one)>>) EXCEPT !.group = GroupNode(<<Op("+", size, one)>>)],
    \* select size + 1 group by size + 1 order by size
    [Select(<<Op("+", size, one)>>) EXCEPT !.group = GroupNode(<<Op("+", size, one)>>),
                                           !.order = OrderNode(<<Asc(size)>>)],
    \* select max(sum(size))
    Select(<<Fn("max", Fn("sum", size))>>),
    \* select size having count(*) > 1
    [Select(<<size>>) EXCEPT !.having = Op(">", count_star, one)],
    \* select size group by text
    [Select(<<size>>) EXCEPT !.group = GroupNode(<<text>>)],
    \* select null, count(*) group by size, text
    [Select(<<NameNode("null"), count_star>>) EXCEPT !.group = GroupNode(<<size, text>>)],
    \* select size group by size, count(*)
    [Select(<<size>>) EXCEPT !.group = GroupNode(<<size, count_star>>)] }

Queries == PlainQueries \cup GroupQueries

\* the exceptions tokenize and parse raise for a query string, one per raise site
\* and per shape main's handlers tell apart
FrontEndErrors ==
  { \* select <=>      (Lexer.tokenize_with_whitespaces)
    Exception("CantTokenizeError", "", FALSE, FALSE),
    \* select 'x
    Exception("CantTokenizeError", "", FALSE, TRUE),
    \* select 1zb        (NumberToken.value)
    Raise("UnknownLiteralSuffixError"),
    \* select 1 as x     (NotImplementedToken.__init__)
    Raise("NotImplementedTokenError"),
    \* select 1 )        (Parser.parse: expect(EndQueryToken))
    Exception("UnexpectedTokenError", "EndQueryToken", FALSE, FALSE),
    \* select 1 group    (GroupToken.clause: skip(ByToken))
    Exception("UnexpectedTokenError", "ByToken", TRUE, FALSE),
    \* select (1         (OpeningParenToken.prefix: skip(ClosingParenToken))
    Exception("UnexpectedTokenError", "ClosingParenToken", TRUE, FALSE),
    \* select ()         (OpeningParenToken.prefix: UnexpectedTokenError(None, token))
    Exception("UnexpectedTokenError", "None", FALSE, FALSE),
    \* select 1 1        (Token.right_bp)
    Raise("OperatorExpectedError"),
    \* select ,          (Token.prefix)
    Raise("ValueExpectedError"),
    \* select            (Parser._check_bounds)
    Raise("UnexpectedEndError") }

(***************************************************************************)
(* The specification of main.                                              *)
(***************************************************************************)
\* the query attribute before parse has returned
NoQuery == [error |-> "unparsed"]

\* the lexer and the builtin call are not running
LexIdle ==
  /\ lx_string = <<>>
  /\ lx_start = 0
  /\ lx_tokens = <<>>
  /\ lx_error = [kind |-> "", cls |-> "", start |-> 0, end |-> 0]

OpIdle ==
  /\ op_name = ""
  /\ op_args = <<>>
  /\ op_i = 0
  /\ op_result = NoneValue
  /\ op_calls = 0

\* no Aggregate object is under test
AggIdle ==
  /\ ag = NewAggregate("count")
  /\ ag_added = <<>>

\* no directory is walked
WalkIdle ==
  /\ wk_root = [kind |-> "file", listdir |-> "", names |-> <<>>]
  /\ wk_stack = <<>>
  /\ wk_yielded = <<>>
  /\ wk_forbidden = <<>>
  /\ wk_error = [kind |-> "", path |-> <<>>]

\* run_query evaluates no condition
CondIdle ==
  /\ cd_stat = <<>>
  /\ cd_condition = <<>>
  /\ cd_i = 0
  /\ cd_kept = ""

\* no Interval is rendered
IvIdle ==
  /\ iv_self = 0
  /\ iv_total_seconds = 0
  /\ iv_i = 0
  /\ iv_human_parts = <<>>
  /\ iv_str = <<>>

\* no expression is parsed
PsIdle ==
  /\ ps_tokens = <<>>
  /\ ps_index = 0
  /\ ps_node = None
  /\ ps_error = ""

\* no query is parsed
PqIdle ==
  /\ pq_tokens = <<>>
  /\ pq_index = 0
  /\ pq_clause = 0
  /\ pq_raw = <<>>
  /\ pq_error = <<>>
  /\ pq_query = NoQuery

\* get_value is not called again
ReIdle ==
  /\ re_call = 0
  /\ re_first = <<>>

MainIdle ==
  /\ frontend = NoExc
  /\ raw = Select(<<size>>)
  /\ from_rows = <<>>
  /\ dir_exists = TRUE

\* the locals of main and get_value before they are assigned
Unassigned ==
  /\ exc = NoExc
  /\ ret = <<>>
  /\ query = NoQuery
  /\ aggs = <<>>
  /\ row_type = <<>>
  /\ fi = 0
  /\ filtered_rows = <<>>
  /\ keys = <<>>
  /\ rows = <<>>
  /\ grouped = <<>>
  /\ todo = {}
  /\ cur = 0
  /\ ri = 0
  /\ cur_row = <<>>
  /\ order_row = <<>>
  /\ cond = PyBool(FALSE)
  /\ table = [row_type |-> <<>>, rows |-> <<>>]

\* nothing but main runs; nothing but the named unit runs
CoreIdle == MainIdle /\ Unassigned /\ LexIdle /\ OpIdle
AggRestIdle == WalkIdle /\ CondIdle /\ IvIdle /\ PsIdle /\ PqIdle /\ ReIdle
WalkRestIdle == AggIdle /\ CondIdle /\ IvIdle /\ PsIdle /\ PqIdle /\ ReIdle
CondRestIdle == AggIdle /\ WalkIdle /\ IvIdle /\ PsIdle /\ PqIdle /\ ReIdle
IvRestIdle == AggIdle /\ WalkIdle /\ CondIdle /\ PsIdle /\ PqIdle /\ ReIdle
PsRestIdle == AggIdle /\ WalkIdle /\ CondIdle /\ IvIdle /\ PqIdle /\ ReIdle
PqRestIdle == AggIdle /\ WalkIdle /\ CondIdle /\ IvIdle /\ PsIdle /\ ReIdle

UnitIdle ==
  /\ AggIdle
  /\ WalkIdle
  /\ CondIdle
  /\ IvIdle
  /\ PsIdle
  /\ PqIdle
  /\ ReIdle

Init ==
  /\ \/ /\ frontend \in FrontEndErrors
        /\ raw = Select(<<size>>)
        /\ from_rows = <<>>
        /\ dir_exists = TRUE
     \/ /\ frontend = NoExc
        /\ raw \in Queries
        /\ \/ from_rows \in RowStreams /\ dir_exists = TRUE
           \/ from_rows = <<>> /\ dir_exists = FALSE
  /\ pc = "main"
  /\ Unassigned
  /\ LexIdle
  /\ OpIdle
  /\ UnitIdle

Next ==
  \/ Parse
  \/ CheckGroupBy
  \/ RowType
  \/ StartRows
  \/ FilterRow
  \/ GroupRows
  \/ BeginGroup
  \/ ConsumeRow
  \/ EndGroup
  \/ ProjectRow
  \/ SortAndSlice
  \/ ShowTable
  \/ ExceptCantTokenizeError
  \/ ExceptUnknownLiteralSuffixError
  \/ ExceptNotImplementedTokenError
  \/ ExceptUnexpectedTokenError
  \/ ExceptOperatorExpectedError
  \/ ExceptValueExpectedError
  \/ ExceptUnexpectedEndError
  \/ ExceptDirectoryDoesNotExistError
  \/ Propagate

Spec == Init /\ [][Next]_vars

(***************************************************************************)
(* get_value called a second time on the Query node it has evaluated, with *)
(* the same rows and the same context.                                     *)
(***************************************************************************)
InitTwice ==
  /\ frontend = NoExc
  /\ raw \in Queries
  /\ from_rows \in RowStreams
  /\ dir_exists = TRUE
  /\ pc = "main"
  /\ Unassigned
  /\ LexIdle
  /\ OpIdle
  /\ UnitIdle

\* the first call has returned its Table; the second call starts with fresh
\* locals on the same nodes, whose accumulators are as the first call left them
GetValueAgain ==
  /\ pc = "show"
  /\ re_call = 0
  /\ re_call' = 1
  /\ re_first' = <<table>>
  /\ pc' = "check"
  /\ row_type' = <<>>
  /\ fi' = 0
  /\ filtered_rows' = <<>>
  /\ keys' = <<>>
  /\ rows' = <<>>
  /\ grouped' = <<>>
  /\ todo' = {}
  /\ cur' = 0
  /\ ri' = 0
  /\ cur_row' = <<>>
  /\ order_row' = <<>>
  /\ cond' = PyBool(FALSE)
  /\ table' = [row_type |-> <<>>, rows |-> <<>>]
  /\ UNCHANGED <<query, aggs, exc, ret>>
  /\ UNCHANGED <<inputVars, lexVars, opVars, aggVars, walkVars, condVars, ivVars, psVars, pqVars>>

NextTwice ==
  \/ Parse
  \/ CheckGroupBy
  \/ RowType
  \/ StartRows
  \/ FilterRow
  \/ GroupRows
  \/ BeginGroup
  \/ ConsumeRow
  \/ EndGroup
  \/ ProjectRow
  \/ SortAndSlice
  \/ GetValueAgain

SpecTwice == InitTwice /\ [][NextTwice]_vars

(***************************************************************************)
(* The lexer of parser.py.  A string is the sequence of its characters;    *)
(* positions are offsets from 0, so the character at offset p is s[p + 1]. *)
(***************************************************************************)
LowerCase == <<"a", "b", "c", "d", "e", "f", "g", "h", "i", "j", "k", "l", "m", "n", "o", "p", "q", "r", "s", "t", "u", "v", "w", "x", "y", "z">>
UpperCase == <<"A", "B", "C", "D", "E", "F", "G", "H", "I", "J", "K", "L", "M", "N", "O", "P", "Q", "R", "S", "T", "U", "V", "W", "X", "Y", "Z">>

\* the lower-case form of every upper-case letter
LowerOf ==
  [c \in {UpperCase[i] : i \in 1..Len(UpperCase)} |->
     LowerCase[CHOOSE i \in 1..Len(UpperCase) : UpperCase[i] = c]]

\* the lower-case form of a character (re.IGNORECASE on ASCII)
ToLower(c) == IF c \in DOMAIN LowerOf THEN LowerOf[c] ELSE c

\* the characters of \d and of [^\W\d]
Digits == {"0", "1", "2", "3", "4", "5", "6", "7", "8", "9"}
Letters ==
  {LowerCase[i] : i \in 1..Len(LowerCase)} \cup {UpperCase[i] : i \in 1..Len(UpperCase)}
    \cup {"_"}

\* the characters of the operator patterns
_OPERATOR_CHARS == {"|", "/", "=", ">", "<", "-", "%", "*", "!", "+", "^"}

\* the character classes of the regexes: \d, [^\W\d], \w, \s and [_OPERATOR_CHARS]
InClass(c, class) ==
  CASE class = "digit" -> c \in Digits
    [] class = "letter" -> c \in Letters
    [] class = "word" -> c \in Digits \cup Letters
    [] class = "space" -> c \in {" ", "\t", "\n"}
    [] class = "operator" -> c \in _OPERATOR_CHARS

\* a failed match
NoMatch == -1

RECURSIVE RunEnd(_, _, _)
\* where the longest run of characters of a class that starts at offset p ends
RunEnd(s, p, class) ==
  IF p < Len(s) /\ InClass(s[p + 1], class) THEN RunEnd(s, p + 1, class) ELSE p

\* \b at offset p: exactly one of the characters before and after p is a word character
WordBoundary(s, p) ==
  (p > 0 /\ InClass(s[p], "word")) # (p < Len(s) /\ InClass(s[p + 1], "word"))

\* re.escape(pattern) at offset start, ignoring case: the end of the match
MatchLiteral(s, start, pattern) ==
  IF /\ start + Len(pattern) <= Len(s)
     /\ \A i \in 1..Len(pattern) : ToLower(s[start + i]) = pattern[i]
  THEN start + Len(pattern)
  ELSE NoMatch

\* e[+-]?\d+ at offset p: the end of the exponent
ExpEnd(s, p) ==
  IF p < Len(s) /\ ToLower(s[p + 1]) = "e"
  THEN LET q == IF p + 1 < Len(s) /\ s[p + 2] \in {"+", "-"} THEN p + 2 ELSE p + 1
       IN IF RunEnd(s, q, "digit") > q THEN RunEnd(s, q, "digit") ELSE NoMatch
  ELSE NoMatch

\* (?:e(?P<exp>[+-]?\d+))?(?P<suffix>[^\W\d]+)?\b at offset p: the regex tries the
\* exponent first, and a suffix has to run up to a word boundary
TailEnd(s, p) ==
  LET with_exp == IF ExpEnd(s, p) = NoMatch THEN NoMatch
                  ELSE RunEnd(s, ExpEnd(s, p), "letter")
      without_exp == RunEnd(s, p, "letter")
  IN IF with_exp # NoMatch /\ WordBoundary(s, with_exp) THEN with_exp
     ELSE IF WordBoundary(s, without_exp) THEN without_exp
     ELSE NoMatch

RECURSIVE StringScan(_, _, _)
\* '(?:[^']|'')*' from offset p inside the literal: the end of the longest match,
\* where best is the end of the longest match found so far
StringScan(s, p, best) ==
  IF p >= Len(s) THEN best
  ELSE IF s[p + 1] # "'" THEN StringScan(s, p + 1, best)
  ELSE IF p + 1 < Len(s) /\ s[p + 2] = "'" THEN StringScan(s, p + 2, p + 1)
  ELSE p + 1

\* a rule of the lexer: (regex, token_class); implemented is FALSE for the
\* subclasses of NotImplementedToken
Rule(kind, pattern, token_class, implemented) ==
  [kind |-> kind, pattern |-> pattern, cls |-> token_class, implemented |-> implemented]

\* _add_keywords
KeywordRules ==
  <<
     Rule("keyword", <<"a", "n", "d">>, "AndToken", TRUE),
     Rule("keyword", <<"a", "s">>, "AsToken", FALSE),
     Rule("keyword", <<"a", "s", "c">>, "AscToken", TRUE),
     Rule("keyword", <<"b", "e", "t", "w", "e", "e", "n">>, "BetweenToken", TRUE),
     Rule("keyword", <<"b", "y">>, "ByToken", TRUE),
     Rule("keyword", <<"c", "a", "s", "e">>, "CaseToken", FALSE),
     Rule("keyword", <<"c", "o", "n", "t", "a", "i", "n", "s">>, "ContainsToken", FALSE),
     Rule("keyword", <<"d", "e", "l", "e", "t", "e">>, "DeleteToken", FALSE),
     Rule("keyword", <<"d", "e", "s", "c">>, "DescToken", TRUE),
     Rule("keyword", <<"d", "r", "o", "p">>, "DropToken", FALSE),
     Rule("keyword", <<"c", "o", "u", "n", "t">>, "CountToken", TRUE),
     Rule("keyword", <<"e", "l", "s", "e">>, "ElseToken", FALSE),
     Rule("keyword", <<"e", "n", "d">>, "EndToken", FALSE),
     Rule("keyword", <<"e", "x", "i", "s", "t", "s">>, "ExistsToken", FALSE),
     Rule("keyword", <<"f", "r", "o", "m">>, "FromToken", TRUE),
     Rule("keyword", <<"g", "r", "o", "u", "p">>, "GroupToken", TRUE),
     Rule("keyword", <<"h", "a", "v", "i", "n", "g">>, "HavingToken", TRUE),
     Rule("keyword", <<"i", "c", "o", "n", "t", "a", "i", "n", "s">>, "IcontainsToken", FALSE),
     Rule("keyword", <<"i", "l", "i", "k", "e">>, "IlikeToken", FALSE),
     Rule("keyword", <<"i", "n">>, "InToken", TRUE),
     Rule("keyword", <<"i", "s">>, "IsToken", FALSE),
     Rule("keyword", <<"i", "s", "n", "u", "l", "l">>, "IsNullToken", FALSE),
     Rule("keyword", <<"j", "o", "i", "n">>, "JoinToken", FALSE),
     Rule("keyword", <<"l", "e", "f", "t">>, "LeftToken", FALSE),
     Rule("keyword", <<"l", "i", "k", "e">>, "LikeToken", FALSE),
     Rule("keyword", <<"l", "i", "k", "e", "_", "r", "e", "g", "e", "x">>, "LikeRegexToken", FALSE),
     Rule("keyword", <<"l", "i", "m", "i", "t">>, "LimitToken", TRUE),
     Rule("keyword", <<"n", "o", "t">>, "NotToken", FALSE),
     Rule("keyword", <<"n", "o", "t", "n", "u", "l", "l">>, "NotNullToken", FALSE),
     Rule("keyword", <<"n", "u", "l", "l">>, "NullToken", TRUE),
     Rule("keyword", <<"o", "f", "f", "s", "e", "t">>, "OffsetToken", TRUE),
     Rule("keyword", <<"o", "r">>, "OrToken", TRUE),
     Rule("keyword", <<"o", "r", "d", "e", "r">>, "OrderToken", TRUE),
     Rule("keyword", <<"o", "u", "t", "e", "r">>, "OuterToken", FALSE),
     Rule("keyword", <<"r", "i", "l", "i", "k", "e">>, "RilikeToken", FALSE),
     Rule("keyword", <<"r", "l", "i", "k", "e">>, "RlikeToken", FALSE),
     Rule("keyword", <<"s", "e", "l", "e", "c", "t">>, "SelectToken", TRUE),
     Rule("keyword", <<"t", "h", "e", "n">>, "ThenToken", FALSE),
     Rule("keyword", <<"u", "p", "d", "a", "t", "e">>, "UpdateToken", FALSE),
     Rule("keyword", <<"w", "h", "e", "r", "e">>, "WhereToken", TRUE) >>

\* _add_operators
OperatorRules ==
  <<
     Rule("operator", <<"|", "|">>, "ConcatToken", TRUE),
     Rule("operator", <<"/">>, "DivToken", TRUE),
     Rule("operator", <<"=">>, "EqToken", TRUE),
     Rule("operator", <<">">>, "GtToken", TRUE),
     Rule("operator", <<">", "=">>, "GteToken", TRUE),
     Rule("operator", <<"<">>, "LtToken", TRUE),
     Rule("operator", <<"<", "=">>, "LteToken", TRUE),
     Rule("operator", <<"-">>, "MinusToken", TRUE),
     Rule("operator", <<"%">>, "ModuloToken", TRUE),
     Rule("operator", <<"*">>, "MulToken", TRUE),
     Rule("operator", <<"<", ">">>, "NeToken", TRUE),
     Rule("operator", <<"!", "=">>, "NeToken", TRUE),
     Rule("operator", <<"+">>, "PlusToken", TRUE),
     Rule("operator", <<"^">>, "PowerToken", TRUE) >>

\* _add_special
SpecialRules ==
  <<
     Rule("special", <<")">>, "ClosingParenToken", TRUE),
     Rule("special", <<",">>, "CommaToken", TRUE),
     Rule("special", <<"(">>, "OpeningParenToken", TRUE),
     Rule("special", <<".">>, "PeriodToken", FALSE) >>

\* _make_default_lexer: the rules in the order they are tried
Rules ==
  KeywordRules
    \o <<Rule("name", <<>>, "NameToken", TRUE)>>
    \o OperatorRules
    \o <<Rule("string", <<>>, "StringToken", TRUE),
         Rule("number1", <<>>, "NumberToken", TRUE),
         Rule("number2", <<>>, "NumberToken", TRUE),
         Rule("number3", <<>>, "NumberToken", TRUE),
         Rule("whitespace", <<>>, "WhitespaceToken", TRUE)>>
    \o SpecialRules

\* an operator regex without the lookahead
NoLookahead(s, p) == TRUE

\* _operator: the negative lookahead (?![_OPERATOR_CHARS]) at offset p
_operator(s, p) == ~(p < Len(s) /\ InClass(s[p + 1], "operator"))

\* regex.match(string, start) for the regex of a rule: the end of the match
RuleMatch(rule, s, start) ==
  LET literal == MatchLiteral(s, start, rule.pattern)
      digits == RunEnd(s, start, "digit")
  IN CASE rule.kind = "keyword" ->
            IF literal # NoMatch /\ WordBoundary(s, literal) THEN literal ELSE NoMatch
       [] rule.kind = "name" ->
            IF InClass(s[start + 1], "letter") THEN RunEnd(s, start, "word") ELSE NoMatch
       [] rule.kind = "operator" ->
            IF literal # NoMatch /\ _operator(s, literal) THEN literal ELSE NoMatch
       [] rule.kind = "string" ->
            IF s[start + 1] = "'" THEN StringScan(s, start + 1, NoMatch) ELSE NoMatch
       [] rule.kind = "number1" ->
            IF /\ digits < Len(s)
               /\ s[digits + 1] = "."
               /\ RunEnd(s, digits + 1, "digit") > digits + 1
            THEN TailEnd(s, RunEnd(s, digits + 1, "digit"))
            ELSE NoMatch
       [] rule.kind = "number2" ->
            IF digits > start /\ digits < Len(s) /\ s[digits + 1] = "."
            THEN (IF TailEnd(s, digits + 1) # NoMatch THEN TailEnd(s, digits + 1)
                  ELSE digits + 1)
            ELSE NoMatch
       [] rule.kind = "number3" ->
            IF digits > start THEN TailEnd(s, digits) ELSE NoMatch
       [] rule.kind = "whitespace" ->
            IF InClass(s[start + 1], "space") THEN RunEnd(s, start, "space") ELSE NoMatch
       [] rule.kind = "special" -> literal

\* the rules that match at start
Matching(s, start) == {i \in 1..Len(Rules) : RuleMatch(Rules[i], s, start) # NoMatch}

\* the first rule that matches at start
FirstRule(s, start) == CHOOSE i \in Matching(s, start) : \A j \in Matching(s, start) : i <= j

\* a token: its class and the span of its match
Token(token_class, start, end) == [cls |-> token_class, start |-> start, end |-> end]

\* an error of the lexer: CantTokenizeError(string, pos) or
\* NotImplementedTokenError(token_class, match)
LexError(kind, token_class, start, end) ==
  [kind |-> kind, cls |-> token_class, start |-> start, end |-> end]
NoLexError == LexError("", "", 0, 0)

\* Lexer.tokenize: the tokens that are no WhitespaceToken
tokenize(tokens) == SelectSeq(tokens, LAMBDA t : t.cls # "WhitespaceToken")

\* StringToken.prefix: the value of the ValueNode is match.group('string'), the
\* characters between the outer quotes as they are written
StringTokenPrefix(s, token) == SubSeq(s, token.start + 2, token.end - 1)

\* the generator has yielded the EndQueryToken
LexDone == lx_tokens # <<>> /\ lx_tokens[Len(lx_tokens)].cls = "EndQueryToken"

\* lines 764-775: a rule matches and its token is yielded
LexToken ==
  /\ pc = "lexer"
  /\ lx_error = NoLexError
  /\ lx_start < Len(lx_string)
  /\ Matching(lx_string, lx_start) # {}
  /\ LET rule == Rules[FirstRule(lx_string, lx_start)]
         end == RuleMatch(rule, lx_string, lx_start)
     IN /\ rule.implemented
        /\ lx_tokens' = Append(lx_tokens, Token(rule.cls, lx_start, end))
        /\ lx_start' = end
  /\ UNCHANGED <<lx_string, lx_error, inputVars, mainVars, evalVars, opVars, unitVars>>

\* line 773 with NotImplementedToken.__init__: constructing the token raises
LexNotImplemented ==
  /\ pc = "lexer"
  /\ lx_error = NoLexError
  /\ lx_start < Len(lx_string)
  /\ Matching(lx_string, lx_start) # {}
  /\ LET rule == Rules[FirstRule(lx_string, lx_start)]
     IN /\ ~rule.implemented
        /\ lx_error' = LexError("NotImplementedTokenError", rule.cls, lx_start,
                                RuleMatch(rule, lx_string, lx_start))
  /\ UNCHANGED <<lx_string, lx_start, lx_tokens, inputVars, mainVars, evalVars, opVars, unitVars>>

\* lines 776-777: no rule matches
LexCantTokenize ==
  /\ pc = "lexer"
  /\ lx_error = NoLexError
  /\ lx_start < Len(lx_string)
  /\ Matching(lx_string, lx_start) = {}
  /\ lx_error' = LexError("CantTokenizeError", "", lx_start, lx_start)
  /\ UNCHANGED <<lx_string, lx_start, lx_tokens, inputVars, mainVars, evalVars, opVars, unitVars>>

\* lines 778-779: the EndQueryToken of the match of $ at start
LexEndQuery ==
  /\ pc = "lexer"
  /\ lx_error = NoLexError
  /\ lx_start >= Len(lx_string)
  /\ ~LexDone
  /\ lx_tokens' = Append(lx_tokens, Token("EndQueryToken", lx_start, lx_start))
  /\ UNCHANGED <<lx_string, lx_start, lx_error, inputVars, mainVars, evalVars, opVars, unitVars>>

(***************************************************************************)
(* The specification of the lexer.                                         *)
(***************************************************************************)
\* the upper-case form of a character
ToUpper(c) == IF \E u \in DOMAIN LowerOf : LowerOf[u] = c
              THEN CHOOSE u \in DOMAIN LowerOf : LowerOf[u] = c
              ELSE c

\* every keyword, written in lower case and in upper case
KeywordInputs ==
  {KeywordRules[k].pattern : k \in 1..Len(KeywordRules)}
    \cup {[i \in 1..Len(KeywordRules[k].pattern) |-> ToUpper(KeywordRules[k].pattern[i])] :
            k \in 1..Len(KeywordRules)}

\* every operator and every special character
OperatorInputs ==
  {OperatorRules[k].pattern : k \in 1..Len(OperatorRules)}
    \cup {SpecialRules[k].pattern : k \in 1..Len(SpecialRules)}

\* strings of the tests: SELECT <=>, 2path2, count(*), a keyword inside a name,
\* a number with exponent and suffix, 'te''st'
SampleInputs ==
  { <<"<", "=", ">">>,
    <<"2", "p", "a", "t", "h", "2">>,
    <<"c", "o", "u", "n", "t", "(", "*", ")">>,
    <<"a", "s", "c", "_", "1">>,
    <<"1", ".", "5", "E", "-", "3", "k", "b", ",", "#">>,
    <<"'", "t", "e", "'", "'", "s", "t", "'">> }

\* Stat.ATTRS: the columns of the files table, as the strings a query names them by
ATTRS ==
  { <<"f", "u", "l", "l", "p", "a", "t", "h">>,
    <<"s", "i", "z", "e">>,
    <<"o", "w", "n", "e", "r">>,
    <<"p", "a", "t", "h">>,
    <<"f", "u", "l", "l", "d", "i", "r">>,
    <<"d", "i", "r">>,
    <<"n", "a", "m", "e">>,
    <<"e", "x", "t", "e", "n", "s", "i", "o", "n">>,
    <<"e", "x", "t">>,
    <<"n", "o", "_", "e", "x", "t">>,
    <<"m", "o", "d", "e">>,
    <<"g", "r", "o", "u", "p">>,
    <<"a", "t", "i", "m", "e">>,
    <<"m", "t", "i", "m", "e">>,
    <<"c", "t", "i", "m", "e">>,
    <<"b", "i", "r", "t", "h", "t", "i", "m", "e">>,
    <<"d", "e", "p", "t", "h">>,
    <<"t", "y", "p", "e">>,
    <<"d", "e", "v", "i", "c", "e">>,
    <<"h", "a", "r", "d", "l", "i", "n", "k", "s">>,
    <<"i", "n", "o", "d", "e">>,
    <<"t", "e", "x", "t">>,
    <<"l", "i", "n", "e", "s">>,
    <<"i", "s", "_", "e", "x", "e", "c", "u", "t", "a", "b", "l", "e">>,
    <<"i", "s", "_", "e", "x", "e", "c">> }

\* every run of at most MaxRun operator characters
MaxRun == 3
OperatorRuns == UNION {[1..n -> _OPERATOR_CHARS] : n \in 1..MaxRun}

\* the characters of the short strings
Alphabet == {"a", "s", "e", "1", ".", "+", "=", "'", " "}

\* every string over Alphabet of at most MaxLen characters
ShortStrings == UNION {[1..n -> Alphabet] : n \in 0..MaxLen}

InitLex ==
  /\ lx_string \in KeywordInputs \cup OperatorInputs \cup SampleInputs \cup ATTRS
                     \cup ShortStrings \cup OperatorRuns
  /\ lx_start = 0
  /\ lx_tokens = <<>>
  /\ lx_error = NoLexError
  /\ pc = "lexer"
  /\ MainIdle
  /\ Unassigned
  /\ OpIdle
  /\ UnitIdle

NextLex ==
  \/ LexToken
  \/ LexNotImplemented
  \/ LexCantTokenize
  \/ LexEndQuery

SpecLex == InitLex /\ [][NextLex]_vars

(***************************************************************************)
(* The specification of a call of a builtin made by sql_function.          *)
(***************************************************************************)
\* the operators of FUNCTIONS
OperatorNames == {"+", "-", "*", "/", "%", "^", "||", "=", "<>", "<", "<=", ">", ">="}

\* the argument values
Arguments == {NULL} \cup {Num(i) : i \in 0..MaxArg}

InitOps ==
  /\ op_name \in OperatorNames
  /\ op_args \in [1..2 -> Arguments]
  /\ op_i = 0
  /\ op_result = NoneValue
  /\ op_calls = 0
  /\ pc = "wrapper"
  /\ MainIdle
  /\ Unassigned
  /\ LexIdle
  /\ UnitIdle

\* wrapper, lines 471-473: the loop looks at an argument that is not NULL
WrapperNextArg ==
  /\ pc = "wrapper"
  /\ op_i < Len(op_args)
  /\ op_args[op_i + 1] # NULL
  /\ op_i' = op_i + 1
  /\ UNCHANGED <<op_name, op_args, op_result, op_calls, inputVars, mainVars, evalVars, lexVars, unitVars>>

\* wrapper, lines 472-473: the argument is NULL, return NULL
WrapperReturnNull ==
  /\ pc = "wrapper"
  /\ op_i < Len(op_args)
  /\ op_args[op_i + 1] = NULL
  /\ op_result' = NULL
  /\ pc' = "returned"
  /\ UNCHANGED <<op_name, op_args, op_i, op_calls, frontend, raw, from_rows, dir_exists, exc,
                 ret, evalVars, lexVars, unitVars>>

\* wrapper, line 474: return function(*args)
WrapperCall ==
  /\ pc = "wrapper"
  /\ op_i = Len(op_args)
  /\ op_result' = PyOperator(op_name, op_args)
  /\ op_calls' = op_calls + 1
  /\ pc' = "returned"
  /\ UNCHANGED <<op_name, op_args, op_i, frontend, raw, from_rows, dir_exists, exc, ret,
                 evalVars, lexVars, unitVars>>

NextOps ==
  \/ WrapperNextArg
  \/ WrapperReturnNull
  \/ WrapperCall

SpecOps == InitOps /\ [][NextOps]_vars

(***************************************************************************)
(* The specification of an Aggregate object: clear(), add(v), value.       *)
(***************************************************************************)
InitAgg ==
  /\ \E cls \in AGGREGATES : ag = NewAggregate(cls)
  /\ ag_added = <<>>
  /\ pc = "aggregate"
  /\ CoreIdle
  /\ AggRestIdle

\* aggregate.add(value)
AggregateAdd ==
  /\ pc = "aggregate"
  /\ Len(ag_added) < MaxAdds
  /\ \E value \in Arguments :
       /\ ag' = AggAdd(ag, value)
       /\ ag_added' = Append(ag_added, value)
  /\ UNCHANGED aggRest

\* aggregate.clear(): __init__ runs again
AggregateClear ==
  /\ pc = "aggregate"
  /\ ag' = NewAggregate(ag.cls)
  /\ ag_added' = <<>>
  /\ UNCHANGED aggRest

NextAgg ==
  \/ AggregateAdd
  \/ AggregateClear

SpecAgg == InitAgg /\ [][NextAgg]_vars

(***************************************************************************)
(* The specification of DirectoryWalker.walk.  A directory tree is an      *)
(* entry: a file, a directory or a link to a directory, with what          *)
(* os.listdir does on it ("ok" or the errno of the OSError) and its names. *)
(* A path is the list of the positions of its names from the root.         *)
(***************************************************************************)
Entry(kind, listdir, names) == [kind |-> kind, listdir |-> listdir, names |-> names]
File == Entry("file", "", <<>>)

\* the directories and links below the root: listed with at most one file, or
\* not listed for lack of permission (EACCES from the kernel, EPERM from the
\* security policy of the system)
SubDirs ==
  {Entry(k, "ok", ns) : k \in {"dir", "link"}, ns \in {<<>>, <<File>>}}
    \cup {Entry(k, e, <<>>) : k \in {"dir", "link"}, e \in {"EACCES", "EPERM"}}

\* the directories a walk starts from
Roots ==
  {Entry("dir", e, <<>>) : e \in {"ENOENT", "EACCES", "EPERM"}}
    \cup UNION {{Entry("dir", "ok", ns) : ns \in [1..n -> {File} \cup SubDirs]} : n \in 0..MaxNames}

RECURSIVE EntryAt(_, _)
\* the entry at a path
EntryAt(entry, path) ==
  IF path = <<>> THEN entry ELSE EntryAt(entry.names[Head(path)], Tail(path))

\* a call of walk(path, depth): where it is, the names it has yielded, its dirs
Frame(path, stage, i, dirs) == [path |-> path, stage |-> stage, i |-> i, dirs |-> dirs]
NoWalkError == [kind |-> "", path |-> <<>>]

InitWalk ==
  /\ wk_root \in Roots
  /\ wk_stack = <<Frame(<<>>, "listdir", 0, <<>>)>>
  /\ wk_yielded = <<>>
  /\ wk_forbidden = <<>>
  /\ wk_error = NoWalkError
  /\ pc = "walk"
  /\ CoreIdle
  /\ WalkRestIdle

\* the innermost call of walk and the entry of its path
Top == wk_stack[Len(wk_stack)]
TopEntry == EntryAt(wk_root, Top.path)
ReplaceTop(frame) == [wk_stack EXCEPT ![Len(wk_stack)] = frame]

\* lines 650-651, 659: names = os.listdir(path); dirs = []
WalkListdir ==
  /\ pc = "walk" /\ wk_stack # <<>> /\ Top.stage = "listdir"
  /\ TopEntry.listdir = "ok"
  /\ wk_stack' = ReplaceTop(Frame(Top.path, "names", 0, <<>>))
  /\ UNCHANGED <<wk_root, wk_yielded, wk_forbidden, wk_error, walkRest>>

\* lines 652-654: errno is ENOENT
WalkDoesNotExist ==
  /\ pc = "walk" /\ wk_stack # <<>> /\ Top.stage = "listdir"
  /\ TopEntry.listdir = "ENOENT"
  /\ wk_error' = [kind |-> "DirectoryDoesNotExistError", path |-> Top.path]
  /\ wk_stack' = <<>>
  /\ UNCHANGED <<wk_root, wk_yielded, wk_forbidden, walkRest>>

\* lines 655-660: errno is EPERM: the path is recorded and the function goes on
\* to `for name in names`, where names was never assigned
WalkForbidden ==
  /\ pc = "walk" /\ wk_stack # <<>> /\ Top.stage = "listdir"
  /\ TopEntry.listdir = "EPERM"
  /\ wk_forbidden' = Append(wk_forbidden, Top.path)
  /\ wk_error' = [kind |-> "UnboundLocalError", path |-> Top.path]
  /\ wk_stack' = <<>>
  /\ UNCHANGED <<wk_root, wk_yielded, walkRest>>

\* lines 657-658: any other errno: raise
WalkReraise ==
  /\ pc = "walk" /\ wk_stack # <<>> /\ Top.stage = "listdir"
  /\ TopEntry.listdir \notin {"ok", "ENOENT", "EPERM"}
  /\ wk_error' = [kind |-> "OSError", path |-> Top.path]
  /\ wk_stack' = <<>>
  /\ UNCHANGED <<wk_root, wk_yielded, wk_forbidden, walkRest>>

\* lines 660-664: the next name: a directory (or a link to one) is kept in dirs,
\* the name is yielded with the depth
WalkYieldName ==
  /\ pc = "walk" /\ wk_stack # <<>> /\ Top.stage = "names"
  /\ Top.i < Len(TopEntry.names)
  /\ wk_yielded' = Append(wk_yielded, [path |-> Append(Top.path, Top.i + 1),
                                       depth |-> Len(Top.path)])
  /\ wk_stack' = ReplaceTop(Frame(Top.path, "names", Top.i + 1,
                                  IF TopEntry.names[Top.i + 1].kind \in {"dir", "link"}
                                  THEN Append(Top.dirs, Top.i + 1) ELSE Top.dirs))
  /\ UNCHANGED <<wk_root, wk_forbidden, wk_error, walkRest>>

\* line 665: the loop over the names is over
WalkNamesDone ==
  /\ pc = "walk" /\ wk_stack # <<>> /\ Top.stage = "names"
  /\ Top.i = Len(TopEntry.names)
  /\ wk_stack' = ReplaceTop(Frame(Top.path, "dirs", 0, Top.dirs))
  /\ UNCHANGED <<wk_root, wk_yielded, wk_forbidden, wk_error, walkRest>>

\* lines 665-667: the next of dirs: walk(d, depth + 1) unless it is a link
WalkDescend ==
  /\ pc = "walk" /\ wk_stack # <<>> /\ Top.stage = "dirs"
  /\ Top.i < Len(Top.dirs)
  /\ LET d == Append(Top.path, Top.dirs[Top.i + 1])
         advanced == ReplaceTop(Frame(Top.path, "dirs", Top.i + 1, Top.dirs))
     IN wk_stack' = IF EntryAt(wk_root, d).kind = "link" THEN advanced
                    ELSE Append(advanced, Frame(d, "listdir", 0, <<>>))
  /\ UNCHANGED <<wk_root, wk_yielded, wk_forbidden, wk_error, walkRest>>

\* the generator of a call is exhausted
WalkReturn ==
  /\ pc = "walk" /\ wk_stack # <<>> /\ Top.stage = "dirs"
  /\ Top.i = Len(Top.dirs)
  /\ wk_stack' = SubSeq(wk_stack, 1, Len(wk_stack) - 1)
  /\ UNCHANGED <<wk_root, wk_yielded, wk_forbidden, wk_error, walkRest>>

NextWalk ==
  \/ WalkListdir
  \/ WalkDoesNotExist
  \/ WalkForbidden
  \/ WalkReraise
  \/ WalkYieldName
  \/ WalkNamesDone
  \/ WalkDescend
  \/ WalkReturn

SpecWalk == InitWalk /\ [][NextWalk]_vars

(***************************************************************************)
(* The pyparsing evaluator of lsql/__init__.py: run_query decides for one  *)
(* path whether its Stat is kept.  A value is lsql.NULL, a str or an int   *)
(* (bool is a subclass of int).  A parsed simple condition is the list of  *)
(* its tokens: an optional NOT, then one value or value, operator, value.  *)
(***************************************************************************)
MaxConds == 2

LsqlNULL == [tag |-> "null", s |-> "", n |-> 0]
StrValue(s) == [tag |-> "str", s |-> s, n |-> 0]
IntValue(n) == [tag |-> "int", s |-> "", n |-> n]
BoolValue(b) == IntValue(IF b THEN 1 ELSE 0)

\* bool(value): Null.__nonzero__ is False, a str is true unless empty
LsqlTruthy(v) ==
  CASE v.tag = "null" -> FALSE
    [] v.tag = "str" -> v.s # ""
    [] v.tag = "int" -> v.n # 0

\* a token of the grammar: the keyword NOT, a quoted string (s is the text
\* between the quotes), a word (a column or a constant) or an operator
Quoted(s) == [kind |-> "quoted", s |-> s]
Word(s) == [kind |-> "word", s |-> s]
BinOp(s) == [kind |-> "bin_op", s |-> s]
NOT == [kind |-> "keyword", s |-> "NOT"]

\* the constants that are written in the conditions of the model
CONSTANTS_ == [null |-> LsqlNULL]

\* eval_value for a quoted literal, a constant and a column of the Stat
eval_value(value, stat) ==
  CASE value.kind = "quoted" -> StrValue(value.s)
    [] value.kind = "word" /\ value.s \in DOMAIN CONSTANTS_ -> CONSTANTS_[value.s]
    [] OTHER -> stat[value.s]

\* operator.eq and operator.ne of OPERATORS, before propagate_null wraps them
OPERATORS(op, left, right) ==
  CASE op \in {"=", "=="} -> BoolValue(left = right)
    [] op \in {"<>", "!="} -> BoolValue(left # right)

\* operator.not_
not_(x) == BoolValue(~LsqlTruthy(x))

\* the wrapper of propagate_null around a function of one argument, given the
\* result fn would return
propagate_null_1(arg, result) == IF arg = LsqlNULL THEN LsqlNULL ELSE result

\* the wrapper of propagate_null around a function of two arguments
propagate_null_2(left, right, result) ==
  IF left = LsqlNULL \/ right = LsqlNULL THEN LsqlNULL ELSE result

eval_simple_condition(condition, stat) ==
  LET negated == condition[1] = NOT
      rest == IF negated THEN Tail(condition) ELSE condition
      modify(x) == IF negated THEN propagate_null_1(x, not_(x)) ELSE x
  IN IF Len(rest) = 1
     THEN modify(eval_value(rest[1], stat))
     ELSE LET left == eval_value(rest[1], stat)
              right == eval_value(rest[3], stat)
          IN IF LsqlTruthy(propagate_null_2(left, right, OPERATORS(rest[2].s, left, right)))
             THEN modify(BoolValue(TRUE))
             ELSE modify(BoolValue(FALSE))

\* the Stats of a directory (text is NULL), an empty file and two other files
Stats ==
  {[text |-> t, name |-> StrValue("x")] :
     t \in {LsqlNULL, StrValue(""), StrValue("x"), StrValue("y")}}

\* value, and value bin_op value
PlainConditions ==
  { <<Word("text")>>,
    <<Word("null")>>,
    <<Word("text"), BinOp("="), Quoted("x")>>,
    <<Word("text"), BinOp("<>"), Quoted("x")>>,
    <<Quoted("x"), BinOp("!="), Word("text")>>,
    <<Word("name"), BinOp("=="), Word("text")>>,
    <<Word("name"), BinOp("="), Quoted("x")>> }

\* Optional(CaselessKeyword('NOT')) before either form
SimpleConditions == PlainConditions \cup {<<NOT>> \o c : c \in PlainConditions}

\* delimitedList(condition, delim=AND)
Conditions == UNION {[1..n -> SimpleConditions] : n \in 1..MaxConds}

InitCond ==
  /\ cd_stat \in Stats
  /\ cd_condition \in Conditions
  /\ cd_i = 1
  /\ cd_kept = ""
  /\ pc = "run_query"
  /\ CoreIdle
  /\ CondRestIdle

\* eval_condition: all() takes the next simple condition, which is true
CondTrue ==
  /\ pc = "run_query"
  /\ cd_kept = ""
  /\ cd_i <= Len(cd_condition)
  /\ LsqlTruthy(eval_simple_condition(cd_condition[cd_i], cd_stat))
  /\ cd_i' = cd_i + 1
  /\ UNCHANGED <<cd_stat, cd_condition, cd_kept, condRest>>

\* all() meets a simple condition that is not true: the Stat is not appended
CondFalse ==
  /\ pc = "run_query"
  /\ cd_kept = ""
  /\ cd_i <= Len(cd_condition)
  /\ ~LsqlTruthy(eval_simple_condition(cd_condition[cd_i], cd_stat))
  /\ cd_kept' = "skipped"
  /\ UNCHANGED <<cd_stat, cd_condition, cd_i, condRest>>

\* all() is exhausted: stats.append(stat)
CondAppend ==
  /\ pc = "run_query"
  /\ cd_kept = ""
  /\ cd_i > Len(cd_condition)
  /\ cd_kept' = "appended"
  /\ UNCHANGED <<cd_stat, cd_condition, cd_i, condRest>>

NextCond ==
  \/ CondTrue
  \/ CondFalse
  \/ CondAppend

SpecCond == InitCond /\ [][NextCond]_vars

(***************************************************************************)
(* Interval.__str__ of lsql/__init__.py, one iteration of its loop at a    *)
(* time.  A str is a TLA+ string; '{:d}' is ToString of the int.           *)
(***************************************************************************)
MaxSeconds == 61

SECONDS_IN_MINUTE == 60
SECONDS_IN_HOUR == 3600
SECONDS_IN_DAY == 86400

\* the local list parts of __str__
parts ==
  << <<SECONDS_IN_DAY, "day">>,
     <<SECONDS_IN_HOUR, "hour">>,
     <<SECONDS_IN_MINUTE, "minute">>,
     <<1, "second">> >>

max_parts == 3

\* inflect(quantity, noun): '5 nouns', '1 noun'
inflect(quantity, noun) ==
  IF quantity = 1
  THEN ToString(quantity) \o " " \o noun
  ELSE ToString(quantity) \o " " \o noun \o "s"

RECURSIVE Join(_, _)
\* separator.join(strings)
Join(separator, strings) ==
  IF strings = <<>> THEN ""
  ELSE IF Len(strings) = 1 THEN strings[1]
  ELSE strings[1] \o separator \o Join(separator, Tail(strings))

\* seq[:n]
Prefix(seq, n) == SubSeq(seq, 1, IF Len(seq) < n THEN Len(seq) ELSE n)

\* [inflect(x, name) for x, name in human_parts if x]
WithoutZeroes(human_parts) ==
  LET kept == SelectSeq(human_parts, LAMBDA part : part[1] # 0)
  IN [k \in 1..Len(kept) |-> inflect(kept[k][1], kept[k][2])]

\* the intervals that are rendered: the short ones and some around an hour and a day
IntervalInputs ==
  (0..MaxSeconds) \cup {119, 120, 3599, 3600, 3601, 3661, 7322, 86399, 86400, 86401, 86460,
                        90000, 90061, 172800, 180122}

InitInterval ==
  /\ iv_self \in IntervalInputs
  /\ iv_total_seconds = iv_self
  /\ iv_i = 1
  /\ iv_human_parts = <<>>
  /\ iv_str = <<>>
  /\ pc = "interval"
  /\ CoreIdle
  /\ IvRestIdle

\* an iteration of the loop over parts with total_seconds not zero: divmod
IntervalDivmod ==
  /\ pc = "interval"
  /\ iv_i <= Len(parts)
  /\ iv_total_seconds # 0
  /\ iv_human_parts' = Append(iv_human_parts,
                              <<iv_total_seconds \div parts[iv_i][1], parts[iv_i][2]>>)
  /\ iv_total_seconds' = iv_total_seconds % parts[iv_i][1]
  /\ iv_i' = iv_i + 1
  /\ UNCHANGED <<iv_self, iv_str, ivRest>>

\* an iteration with total_seconds zero: nothing is appended
IntervalSkipPart ==
  /\ pc = "interval"
  /\ iv_i <= Len(parts)
  /\ iv_total_seconds = 0
  /\ iv_i' = iv_i + 1
  /\ UNCHANGED <<iv_self, iv_total_seconds, iv_human_parts, iv_str, ivRest>>

\* after the loop: human_parts[:max_parts], the filter of zeroes, the join
IntervalJoin ==
  /\ pc = "interval"
  /\ iv_i = Len(parts) + 1
  /\ iv_human_parts' = Prefix(iv_human_parts, max_parts)
  /\ iv_str' = <<Join(", ", WithoutZeroes(Prefix(iv_human_parts, max_parts)))>>
  /\ iv_i' = iv_i + 1
  /\ UNCHANGED <<iv_self, iv_total_seconds, ivRest>>

NextInterval ==
  \/ IntervalDivmod
  \/ IntervalSkipPart
  \/ IntervalJoin

SpecInterval == InitInterval /\ [][NextInterval]_vars

(***************************************************************************)
(* Parser.expr of parser.py: top-down operator precedence parsing.  A      *)
(* token is its class and its text; the list of tokens ends with the       *)
(* EndQueryToken, as the lexer yields it.  A call returns the node, the    *)
(* position of the parser (from 1) and the exception it raised, if any.    *)
(***************************************************************************)
MaxTokens == 4

TextToken(token_class, string) == [cls |-> token_class, text |-> string]

\* _get_right_binding_powers: the groups of increasing precedence
right_token_groups ==
  << {"EndToken", "CommaToken", "ClosingParenToken", "FromToken", "WhereToken", "GroupToken",
      "HavingToken", "OrderToken", "AscToken", "DescToken", "LimitToken", "OffsetToken",
      "EndQueryToken"},
     {"OrToken"},
     {"AndToken"},
     {"EqToken"},
     {"LtToken", "GtToken"},
     {"LikeToken", "IlikeToken", "LikeRegexToken", "RlikeToken", "RilikeToken",
      "ContainsToken", "IcontainsToken"},
     {"BetweenToken"},
     {"InToken"},
     {"ConcatToken", "LteToken", "GteToken", "NeToken"},
     {"PlusToken", "MinusToken"},
     {"MulToken", "DivToken", "ModuloToken"},
     {"PowerToken"},
     {"OpeningParenToken"} >>

\* _get_binding_powers: mul * level, the first level being zero
_get_binding_powers(token_groups, mul) ==
  [cls \in UNION {token_groups[k] : k \in 1..Len(token_groups)} |->
     mul * ((CHOOSE k \in 1..Len(token_groups) : cls \in token_groups[k]) - 1)]

RIGHT_BINDING_POWERS == _get_binding_powers(right_token_groups, 100)

\* float('inf'): greater than every binding power of the table
inf == 100 * Len(right_token_groups)

\* a table in which the unary operators bind no tighter than the start of an expression
NoLeftBindingPower(cls) == 0

\* LEFT_BINDING_POWERS of the unary PlusToken and MinusToken
LEFT_BINDING_POWERS(cls) == inf

\* operator_name of the subclasses of OperatorToken with the suffix of OperatorToken
operator_name ==
  [EqToken |-> "=", NeToken |-> "<>", LtToken |-> "<", LteToken |-> "<=", GtToken |-> ">",
   GteToken |-> ">=", ConcatToken |-> "||", MinusToken |-> "-", PlusToken |-> "+",
   MulToken |-> "*", DivToken |-> "/", ModuloToken |-> "%", PowerToken |-> "^"]

\* NumberToken.value for the one-digit literals
NumberValue(string) ==
  Num(CHOOSE i \in 0..9 : ToString(i) = string)

\* what a call of the parser hands back
Returned(node, index) == [node |-> node, index |-> index, error |-> "", expected |-> ""]
Thrown(error, index) == [node |-> None, index |-> index, error |-> error, expected |-> ""]
\* UnexpectedTokenError(expected_token_class, actual_token)
ThrownUnexpected(expected_token_class, index) ==
  [node |-> None, index |-> index, error |-> "UnexpectedTokenError",
   expected |-> expected_token_class]

\* Parser.skip after a call that returned r: expect, then advance
skip(tokens, r, expected_token_class) ==
  IF r.error # "" THEN r
  ELSE IF tokens[r.index].cls # expected_token_class
  THEN ThrownUnexpected(expected_token_class, r.index)
  ELSE IF r.index >= Len(tokens) THEN Thrown("UnexpectedEndError", r.index)
  ELSE Returned(r.node, r.index + 1)

RECURSIVE expr(_, _, _)
RECURSIVE ExprLoop(_, _, _)
RECURSIVE TokenPrefix(_, _, _)
RECURSIVE TokenSuffix(_, _, _, _)
RECURSIVE parse_delimited_exprs(_, _, _)

\* Parser.expr with the parser at index: advance, token.prefix, then the loop
expr(tokens, index, left_bp) ==
  IF index >= Len(tokens) THEN Thrown("UnexpectedEndError", index)
  ELSE ExprLoop(tokens, TokenPrefix(tokens, tokens[index], index + 1), left_bp)

\* while self.token.right_bp > left_bp: advance, left = token.suffix(left, self)
ExprLoop(tokens, left, left_bp) ==
  IF left.error # "" THEN left
  ELSE LET token == tokens[left.index]
       IN IF token.cls \notin DOMAIN RIGHT_BINDING_POWERS
          THEN Thrown("OperatorExpectedError", left.index)
          ELSE IF RIGHT_BINDING_POWERS[token.cls] > left_bp
          THEN IF left.index >= Len(tokens) THEN Thrown("UnexpectedEndError", left.index)
               ELSE ExprLoop(tokens, TokenSuffix(tokens, token, left.node, left.index + 1),
                             left_bp)
          ELSE left

\* token.prefix(parser) of NumberToken, NameToken, MinusToken, PlusToken,
\* OpeningParenToken, and of Token for the classes that do not redefine it
TokenPrefix(tokens, token, index) ==
  CASE token.cls = "NumberToken" -> Returned(ValueNode(NumberValue(token.text)), index)
    [] token.cls = "NameToken" -> Returned(NameNode(token.text), index)
    [] token.cls = "MinusToken" ->
         LET r == expr(tokens, index, LEFT_BINDING_POWERS(token.cls))
         IN IF r.error # "" THEN r
            ELSE Returned(FunctionNode("negate", <<r.node>>), r.index)
    [] token.cls = "PlusToken" -> expr(tokens, index, LEFT_BINDING_POWERS(token.cls))
    [] token.cls = "OpeningParenToken" ->
         IF tokens[index].cls = "ClosingParenToken"
         THEN ThrownUnexpected("None", index)
         ELSE skip(tokens, expr(tokens, index, 0), "ClosingParenToken")
    [] OTHER -> Thrown("ValueExpectedError", index)

\* token.suffix(left, parser) of OperatorToken, AndToken, OrToken, BetweenToken,
\* OpeningParenToken
TokenSuffix(tokens, token, left, index) ==
  CASE token.cls \in DOMAIN operator_name ->
         LET r == expr(tokens, index, RIGHT_BINDING_POWERS[token.cls])
         IN IF r.error # "" THEN r
            ELSE Returned(FunctionNode(operator_name[token.cls], <<left, r.node>>), r.index)
    [] token.cls \in {"AndToken", "OrToken"} ->
         LET r == expr(tokens, index, RIGHT_BINDING_POWERS[token.cls])
         IN IF r.error # "" THEN r
            ELSE Returned(IF token.cls = "AndToken" THEN AndNode(left, r.node)
                          ELSE OrNode(left, r.node), r.index)
    [] token.cls = "BetweenToken" ->
         LET first == expr(tokens, index, RIGHT_BINDING_POWERS[token.cls])
             skipped == skip(tokens, first, "AndToken")
             last == expr(tokens, skipped.index, 0)
         IN IF skipped.error # "" THEN skipped
            ELSE IF last.error # "" THEN last
            ELSE Returned(BetweenNode(left, first.node, last.node), last.index)
    [] token.cls = "OpeningParenToken" ->
         IF left.kind # "Name" THEN Thrown("AssertionError", index)
         ELSE IF tokens[index].cls = "ClosingParenToken"
         THEN skip(tokens, Returned(FunctionNode(left.name, <<>>), index), "ClosingParenToken")
         ELSE LET r == parse_delimited_exprs(tokens, index, <<>>)
              IN IF r.error # "" THEN r
                 ELSE skip(tokens, Returned(FunctionNode(left.name, r.node), r.index),
                           "ClosingParenToken")

\* Parser.parse_delimited_exprs(CommaToken): the list of the parsed nodes
parse_delimited_exprs(tokens, index, nodes) ==
  LET r == expr(tokens, index, 0)
  IN IF r.error # "" THEN r
     ELSE IF tokens[r.index].cls = "CommaToken"
     THEN IF r.index >= Len(tokens) THEN Thrown("UnexpectedEndError", r.index)
          ELSE parse_delimited_exprs(tokens, r.index + 1, Append(nodes, r.node))
     ELSE Returned(Append(nodes, r.node), r.index)

EndQueryToken == TextToken("EndQueryToken", "")

\* the tokens of the short expressions
TokenAlphabet ==
  { TextToken("NumberToken", "1"), TextToken("NameToken", "a"),
    TextToken("PlusToken", "+"), TextToken("MinusToken", "-"), TextToken("MulToken", "*"),
    TextToken("OpeningParenToken", "("), TextToken("ClosingParenToken", ")"),
    TextToken("CommaToken", ",") }

\* expressions of the tests: 1 + 7 * 3, (-1-4-3) * 5, 8 / (2 * +2), and
\* 2 ^ 3 ^ 2, a = 1 or a < 2 and a >= 3, f(1, -a) + 1
SampleExpressions ==
  LET n(string) == TextToken("NumberToken", string)
      a == TextToken("NameToken", "a")
      f == TextToken("NameToken", "f")
      plus == TextToken("PlusToken", "+")
      minus == TextToken("MinusToken", "-")
      mul == TextToken("MulToken", "*")
      open == TextToken("OpeningParenToken", "(")
      close == TextToken("ClosingParenToken", ")")
  IN { <<n("1"), plus, n("7"), mul, n("3")>>,
       <<open, minus, n("1"), minus, n("4"), minus, n("3"), close, mul, n("5")>>,
       <<n("8"), TextToken("DivToken", "/"), open, n("2"), mul, plus, n("2"), close>>,
       <<n("2"), TextToken("PowerToken", "^"), n("3"), TextToken("PowerToken", "^"), n("2")>>,
       <<a, TextToken("EqToken", "="), n("1"), TextToken("OrToken", "or"), a,
         TextToken("LtToken", "<"), n("2"), TextToken("AndToken", "and"), a,
         TextToken("GteToken", ">="), n("3")>>,
       <<f, open, n("1"), TextToken("CommaToken", ","), minus, a, close, plus, n("1")>> }

\* the tokens of the infix operators: the subclasses of OperatorToken, and, or
InfixTokens ==
  {TextToken(cls, operator_name[cls]) : cls \in DOMAIN operator_name}
    \cup {TextToken("AndToken", "and"), TextToken("OrToken", "or")}

PrimaryTokens == {TextToken("NumberToken", "1"), TextToken("NameToken", "a")}

\* a op1 b op2 c for every pair of infix operators, and a unary operator before
\* a op b for every infix operator
InfixExpressions ==
  {<<a, op1, b, op2, c>> : a \in PrimaryTokens, op1 \in InfixTokens, b \in PrimaryTokens,
                           op2 \in InfixTokens, c \in PrimaryTokens}
    \cup {<<u, a, op, b>> : u \in {TextToken("PlusToken", "+"), TextToken("MinusToken", "-")},
                            a \in PrimaryTokens, op \in InfixTokens, b \in PrimaryTokens}

\* a BETWEEN b AND c op d for every infix operator, and the expressions
\* x BETWEEN 2 AND 4 AND y = 1, x BETWEEN 2 AND 4 OR z, x BETWEEN 2 AND 4
BetweenExpressions ==
  LET between == TextToken("BetweenToken", "between")
      and == TextToken("AndToken", "and")
      x == TextToken("NameToken", "x")
      two == TextToken("NumberToken", "2")
      four == TextToken("NumberToken", "4")
  IN {<<a, between, b, and, c, op, d>> : a \in PrimaryTokens, b \in PrimaryTokens,
                                         c \in PrimaryTokens, op \in InfixTokens,
                                         d \in PrimaryTokens}
       \cup { <<x, between, two, and, four, and, TextToken("NameToken", "y"),
               TextToken("EqToken", "="), TextToken("NumberToken", "1")>>,
             <<x, between, two, and, four, TextToken("OrToken", "or"),
               TextToken("NameToken", "z")>>,
             <<x, between, two, and, four>>,
             <<x, between, two, four>>,
             <<x, between, two, and>> }

\* every list of at most MaxTokens tokens of the alphabet
ShortExpressions == UNION {[1..n -> TokenAlphabet] : n \in 0..MaxTokens}

InitParser ==
  /\ \E tokens \in SampleExpressions \cup InfixExpressions \cup BetweenExpressions
                      \cup ShortExpressions :
       ps_tokens = Append(tokens, EndQueryToken)
  /\ ps_index = 0
  /\ ps_node = None
  /\ ps_error = ""
  /\ pc = "parser"
  /\ CoreIdle
  /\ PsRestIdle

\* Parser(tokens).expr()
Parsed == expr(ps_tokens, ps_index + 1, 0)

\* expr returns a node
ParserExpr ==
  /\ pc = "parser"
  /\ ps_node = None
  /\ ps_error = ""
  /\ Parsed.error = ""
  /\ ps_node' = Parsed.node
  /\ ps_index' = Parsed.index - 1
  /\ UNCHANGED <<ps_tokens, ps_error, psRest>>

\* expr raises
ParserExprRaises ==
  /\ pc = "parser"
  /\ ps_node = None
  /\ ps_error = ""
  /\ Parsed.error # ""
  /\ ps_error' = Parsed.error
  /\ ps_index' = Parsed.index - 1
  /\ UNCHANGED <<ps_tokens, ps_node, psRest>>

NextParser ==
  \/ ParserExpr
  \/ ParserExprRaises

SpecParser == InitParser /\ [][NextParser]_vars

(***************************************************************************)
(* Parser.parse of parser.py: one call of _get_clause at a time, then the  *)
(* expect of the EndQueryToken and QueryNode.create.                       *)
(***************************************************************************)
MaxClauses == 3

\* the order of the _get_clause calls, and the keyword arguments of create
ClauseTokens ==
  <<"SelectToken", "FromToken", "WhereToken", "GroupToken", "HavingToken", "OrderToken",
    "LimitToken", "OffsetToken">>
ClauseNames ==
  <<"select", "from", "where", "group", "having", "order", "limit", "offset">>

\* _parse_one_order_by_clause, after its call of parser.expr() gave r
OrderByPart(tokens, r) ==
  IF r.error # "" THEN r
  ELSE IF tokens[r.index].cls \in {"AscToken", "DescToken"}
  THEN IF r.index >= Len(tokens) THEN Thrown("UnexpectedEndError", r.index)
       ELSE Returned(OrderByPartNode(r.node, IF tokens[r.index].cls = "AscToken"
                                             THEN ASC ELSE DESC), r.index + 1)
  ELSE Returned(OrderByPartNode(r.node, ASC), r.index)

\* _parse_one_order_by_clause
_parse_one_order_by_clause(tokens, index) ==
  OrderByPart(tokens, expr(tokens, index, 0))

RECURSIVE parse_delimited_order_parts(_, _, _)
\* the loop of parse_delimited_exprs after parse_fn gave r
DelimitedOrderParts(tokens, r, nodes) ==
  IF r.error # "" THEN r
  ELSE IF tokens[r.index].cls = "CommaToken"
  THEN IF r.index >= Len(tokens) THEN Thrown("UnexpectedEndError", r.index)
       ELSE parse_delimited_order_parts(tokens, r.index + 1, Append(nodes, r.node))
  ELSE Returned(Append(nodes, r.node), r.index)

\* Parser.parse_delimited_exprs(CommaToken, parse_fn=_parse_one_order_by_clause)
parse_delimited_order_parts(tokens, index, nodes) ==
  DelimitedOrderParts(tokens, _parse_one_order_by_clause(tokens, index), nodes)

\* the node a clause method makes of what the parser gave it
ClauseNode(token_class, r) ==
  IF r.error # "" THEN r
  ELSE Returned(CASE token_class = "SelectToken" -> SelectNode(r.node)
                  [] token_class = "GroupToken" -> GroupNode(r.node)
                  [] token_class = "OrderToken" -> OrderNode(r.node)
                  [] OTHER -> r.node,
                r.index)

\* the clause methods after their parser.skip(ByToken), where they have one
ClauseBody(token_class, tokens, by) ==
  IF by.error # "" THEN by
  ELSE IF token_class = "SelectToken" /\ tokens[by.index].cls = "MulToken"
  THEN IF by.index >= Len(tokens) THEN Thrown("UnexpectedEndError", by.index)
       ELSE Returned(SelectStarNode, by.index + 1)
  ELSE ClauseNode(token_class,
         CASE token_class \in {"SelectToken", "GroupToken"} ->
                parse_delimited_exprs(tokens, by.index, <<>>)
           [] token_class = "OrderToken" ->
                parse_delimited_order_parts(tokens, by.index, <<>>)
           [] OTHER -> expr(tokens, by.index, 0))

\* token.clause(parser) of SelectToken, GroupToken, OrderToken, and of FromToken,
\* WhereToken, HavingToken, LimitToken, OffsetToken, with the parser at index
TokenClause(token_class, tokens, index) ==
  ClauseBody(token_class, tokens,
             IF token_class \in {"GroupToken", "OrderToken"}
             THEN skip(tokens, Returned(None, index), "ByToken")
             ELSE Returned(None, index))

\* the clauses the queries of the model are put together from
ClauseTexts ==
  LET a == TextToken("NameToken", "a")
      n == TextToken("NumberToken", "1")
      by == TextToken("ByToken", "by")
  IN { <<TextToken("SelectToken", "select"), a>>,
       <<TextToken("SelectToken", "select"), TextToken("MulToken", "*")>>,
       <<TextToken("FromToken", "from"), a>>,
       <<TextToken("WhereToken", "where"), a>>,
       <<TextToken("GroupToken", "group"), by, a>>,
       <<TextToken("HavingToken", "having"), n>>,
       <<TextToken("OrderToken", "order"), by, a>>,
       <<TextToken("OrderToken", "order"), by, a, TextToken("DescToken", "desc"),
         TextToken("CommaToken", ","), n>>,
       <<TextToken("LimitToken", "limit"), n>>,
       <<TextToken("OffsetToken", "offset"), n>> }

RECURSIVE OrderedQueries(_)
\* the queries with the clauses k, ..., 8 in that order, each present or absent
OrderedQueries(k) ==
  IF k > Len(ClauseTokens) THEN {<<>>}
  ELSE {head \o rest : head \in {<<>>} \cup {c \in ClauseTexts : c[1].cls = ClauseTokens[k]},
                       rest \in OrderedQueries(k + 1)}

RECURSIVE AnyOrderQueries(_)
\* the queries of at most n clauses in any order
AnyOrderQueries(n) ==
  IF n = 0 THEN {<<>>}
  ELSE {<<>>} \cup {head \o rest : head \in ClauseTexts, rest \in AnyOrderQueries(n - 1)}

InitParse ==
  /\ \E tokens \in OrderedQueries(1) \cup AnyOrderQueries(MaxClauses) :
       pq_tokens = Append(tokens, EndQueryToken)
  /\ pq_index = 0
  /\ pq_clause = 1
  /\ pq_raw = RawQuery(None, None, None, None, None, None, None)
  /\ pq_error = <<>>
  /\ pq_query = NoQuery
  /\ pc = "parse"
  /\ CoreIdle
  /\ PqRestIdle

\* self.token
PqToken == pq_tokens[pq_index + 1]

\* token.clause(self) after the advance of _get_clause
ClauseParsed == TokenClause(ClauseTokens[pq_clause], pq_tokens, pq_index + 2)

\* _get_clause: the token is of the class, and its clause is parsed
GetClause ==
  /\ pc = "parse"
  /\ pq_error = <<>>
  /\ pq_clause \in 1..Len(ClauseTokens)
  /\ PqToken.cls = ClauseTokens[pq_clause]
  /\ ClauseParsed.error = ""
  /\ pq_raw' = [pq_raw EXCEPT ![ClauseNames[pq_clause]] = ClauseParsed.node]
  /\ pq_index' = ClauseParsed.index - 1
  /\ pq_clause' = pq_clause + 1
  /\ UNCHANGED <<pq_tokens, pq_error, pq_query, pqRest>>

\* _get_clause: the token is of the class, and parsing its clause raises
GetClauseRaises ==
  /\ pc = "parse"
  /\ pq_error = <<>>
  /\ pq_clause \in 1..Len(ClauseTokens)
  /\ PqToken.cls = ClauseTokens[pq_clause]
  /\ ClauseParsed.error # ""
  /\ pq_error' = <<ClauseParsed.error, ClauseParsed.expected>>
  /\ pq_index' = ClauseParsed.index - 1
  /\ UNCHANGED <<pq_tokens, pq_clause, pq_raw, pq_query, pqRest>>

\* _get_clause: the token is of another class, the clause is None
GetClauseDefault ==
  /\ pc = "parse"
  /\ pq_error = <<>>
  /\ pq_clause \in 1..Len(ClauseTokens)
  /\ PqToken.cls # ClauseTokens[pq_clause]
  /\ pq_clause' = pq_clause + 1
  /\ UNCHANGED <<pq_tokens, pq_index, pq_raw, pq_error, pq_query, pqRest>>

\* self.expect(EndQueryToken)
ExpectEndQuery ==
  /\ pc = "parse"
  /\ pq_error = <<>>
  /\ pq_clause = Len(ClauseTokens) + 1
  /\ IF PqToken.cls = "EndQueryToken"
     THEN pq_clause' = pq_clause + 1 /\ UNCHANGED pq_error
     ELSE pq_error' = <<"UnexpectedTokenError", "EndQueryToken">> /\ UNCHANGED pq_clause
  /\ UNCHANGED <<pq_tokens, pq_index, pq_raw, pq_query, pqRest>>

\* return ast.QueryNode.create(...)
CreateQuery ==
  /\ pc = "parse"
  /\ pq_error = <<>>
  /\ pq_clause = Len(ClauseTokens) + 2
  /\ pq_query' = QueryNodeCreate(pq_raw)
  /\ pq_clause' = pq_clause + 1
  /\ UNCHANGED <<pq_tokens, pq_index, pq_raw, pq_error, pqRest>>

NextParse ==
  \/ GetClause
  \/ GetClauseRaises
  \/ GetClauseDefault
  \/ ExpectEndQuery
  \/ CreateQuery

SpecParse == InitParse /\ [][NextParse]_vars

(***************************************************************************)
(* Properties of main and of QueryNode.get_value.                          *)
(***************************************************************************)
\* get_value has returned a table
Evaluated == pc \in {"show", "exit"} /\ exc = NoExc

\* the permutations of 1..n
Reorderings(n) == {p \in [1..n -> 1..n] : \A i, j \in 1..n : p[i] = p[j] => i = j}

\* C1: sorting is stable.  For a query without grouping (and without LIMIT and
\* OFFSET, so that every row is in the result), the result rows are the projected
\* rows of the filtered stream in an order that keeps rows with equal sort keys in
\* the relative order of the stream, whatever their projected columns are.
C1_SortIsStable ==
  (/\ pc = "show"
   /\ query.group.kind = "FakeGroup"
   /\ query.order.children # <<>>
   /\ query.limit = ValueNode(INF)
   /\ query.offset = ValueNode(Num(0)))
  => \E p \in Reorderings(Len(rows)) :
       /\ table.rows = [i \in 1..Len(rows) |-> rows[p[i]]]
       /\ \A i, j \in 1..Len(rows) :
            (i < j /\ OrderByKeyEq(keys[p[i]], keys[p[j]])) => p[i] < p[j]

\* the AggFunctionNodes of the query that are COUNT(*)
CountStarNodes(q) ==
  {a \in QueryAggNodes(q) : a.name = "count" /\ a.children = <<ValueNode(Num(1))>>}

\* C2: while a group is consumed, every accumulator in select, having and order
\* is fed once for each row of the group, wherever the aggregate sits in its
\* expression: after ri rows of the group every COUNT(*) counts ri.
C2_AggregatesFedOncePerRow ==
  pc = "consume" => \A a \in CountStarNodes(query) : aggs[a.agg].count = ri

\* C3: the schema of the result table has as many columns as there are select
\* expressions, and every result row has that many values, also when a column
\* name is selected twice.
C3_SchemaLengthIsSelectLength ==
  pc = "show" =>
    /\ Len(table.row_type) = Len(query.select.children)
    /\ \A i \in 1..Len(table.rows) : Len(table.rows[i]) = Len(table.row_type)

RECURSIVE Lowered(_)
\* a tree with its column and function names in lower case
Lowered(node) ==
  [node EXCEPT !.name = prepare_key(@),
               !.children = [i \in 1..Len(node.children) |-> Lowered(node.children[i])]]

\* a raw query with its names in lower case
LoweredQuery(r) == [clause \in DOMAIN r |-> Lowered(r[clause])]

\* the clauses of a created query that may hold aggregates, names in lower case
LoweredClauses(q) ==
  [clause \in {"select", "having", "order"} |-> Lowered(q[clause])]

\* C4: the outcome of a query is invariant under ASCII case changes of its names:
\* QueryNode.create lifts the same nodes to aggregates as it lifts in the query
\* written in lower case, and a query that fails with IllegalGroupBy also fails
\* with it when written in lower case.
C4_CaseInvariantOutcome ==
  /\ pc = "check" =>
       /\ QueryNodeCreate(LoweredQuery(raw)).error = ""
       /\ LoweredClauses(query) = LoweredClauses(QueryNodeCreate(LoweredQuery(raw)))
  /\ exc.kind = "IllegalGroupBy" =>
       \/ QueryNodeCreate(LoweredQuery(raw)).error = "IllegalGroupBy"
       \/ /\ QueryNodeCreate(LoweredQuery(raw)).error = ""
          /\ IllegalGroupByNodes(QueryNodeCreate(LoweredQuery(raw))) # <<>>

\* C5: main never lets an exception out: it returns FAILURE_CODE for every error
\* and SUCCESS_CODE only when the query evaluated and the table was printed.
C5_MainNeverPropagates ==
  /\ pc # "propagated"
  /\ pc = "exit" => ret = (IF exc = NoExc THEN <<SUCCESS_CODE>> ELSE <<FAILURE_CODE>>)

RECURSIVE UncoveredName(_, _, _)
\* some Name in the tree names a row column and is not covered, where a node is
\* covered when it or one of its ancestors is equal to a Group child or when one
\* of its proper ancestors is an aggregate
UncoveredName(node, group_children, covered) ==
  IF node.kind = "Name"
  THEN InFromType(node.name) /\ ~covered /\ ~NodeIn(node, group_children)
  ELSE \E i \in 1..Len(node.children) :
         UncoveredName(node.children[i], group_children,
                       covered \/ node.kind = "AggFunction" \/ NodeIn(node, group_children))

RECURSIVE NestedAggregate(_, _)
\* some aggregate in the tree is inside another aggregate
NestedAggregate(node, in_aggregate) ==
  \/ node.kind = "AggFunction" /\ in_aggregate
  \/ \E i \in 1..Len(node.children) :
       NestedAggregate(node.children[i], in_aggregate \/ node.kind = "AggFunction")

\* C7's condition on a created query
GroupByViolated(q) ==
  \E r \in 1..3 :
    \/ UncoveredName(CheckedRoots(q)[r], q.group.children, FALSE)
    \/ NestedAggregate(CheckedRoots(q)[r], FALSE)

\* C7: with a real Group, get_value fails with IllegalGroupBy iff some Name in
\* select/having/order that names a row column is neither equal to a Group child,
\* nor inside an expression equal to one, nor inside an aggregate, or some
\* aggregate is nested in another; it fails before any row is read; whenever
\* evaluation succeeds the condition is false.
C7_IllegalGroupByIff ==
  (query # NoQuery /\ query.group.kind = "Group" /\ pc # "check") =>
    /\ exc.kind = "IllegalGroupBy" <=> GroupByViolated(query)
    /\ exc.kind = "IllegalGroupBy" =>
         fi = 0 /\ filtered_rows = <<>> /\ rows = <<>> /\ pc \in {"except", "propagated"}
    /\ Evaluated => ~GroupByViolated(query)

\* C7's case: the directory has rows, the query has a real Group and a Name that
\* is nested in a function outside GROUP BY, and evaluation has failed
C7_Witness ==
  /\ query # NoQuery
  /\ query.group.kind = "Group"
  /\ from_rows # <<>>
  /\ pc = "except"
  /\ exc.kind = "IllegalGroupBy"
  /\ \E r \in 1..3 : UncoveredName(CheckedRoots(query)[r], query.group.children, FALSE)

\* C9: WHERE with x BETWEEN lo AND hi keeps no row for which x, lo or hi
\* evaluates to NULL.
C9_BetweenWithNullKeepsNoRow ==
  (query # NoQuery /\ query.where.kind = "Between") =>
    \A i \in 1..Len(filtered_rows) : \A j \in 1..3 :
      get_value(query.where.children[j], RowContext(filtered_rows[i]), aggs).val # NULL

(***************************************************************************)
(* Properties of sql_function.                                             *)
(***************************************************************************)
\* C8: for each of the thirteen scalar operators and every pair of arguments, the
\* result is NULL and the wrapped Python operator is not applied when an argument
\* is NULL, and the result is the wrapped operator's result, applied once,
\* when no argument is NULL; the evaluator's call of the builtin gives that result.
C8_NullPropagation ==
  pc = "returned" =>
    /\ (\E i \in 1..Len(op_args) : op_args[i] = NULL) =>
         op_result = NULL /\ op_calls = 0
    /\ (\A i \in 1..Len(op_args) : op_args[i] # NULL) =>
         op_result = PyOperator(op_name, op_args) /\ op_calls = 1
    /\ CallFunction(op_name, op_args) = op_result

\* C8's case: a call whose second argument only is NULL has returned
C8_Witness ==
  /\ pc = "returned"
  /\ op_args[1] # NULL
  /\ op_args[2] = NULL
  /\ op_result = NULL

(***************************************************************************)
(* Properties of the lexer.                                                *)
(***************************************************************************)
\* the string is a keyword in some case
IsKeywordInput(s) ==
  \E k \in 1..Len(KeywordRules) : MatchLiteral(s, 0, KeywordRules[k].pattern) = Len(s)

\* the lexer has stopped
LexStopped == LexDone \/ lx_error # NoLexError

\* C6: every reserved keyword, the unimplemented ones included, tokenizes to one
\* token of its own class with span [0, len) followed by EndQuery; tokenizing
\* raises no NotImplemented error.
C6_KeywordsTokenize ==
  (pc = "lexer" /\ IsKeywordInput(lx_string) /\ LexStopped) =>
    /\ lx_error = NoLexError
    /\ \E k \in 1..Len(KeywordRules) :
         /\ MatchLiteral(lx_string, 0, KeywordRules[k].pattern) = Len(lx_string)
         /\ tokenize(lx_tokens) =
              <<Token(KeywordRules[k].cls, 0, Len(lx_string)),
                Token("EndQueryToken", Len(lx_string), Len(lx_string))>>

\* the characters between two offsets are whitespace
OnlyWhitespace(s, from, to) == \A p \in (from + 1)..to : InClass(s[p], "space")

\* C10: tokenize either fails with an error located at a position of the string,
\* or yields tokens none of which is whitespace, ending in exactly one EndQuery
\* token with span [len, len); the spans of the tokens and of the skipped
\* whitespace are non-empty, contiguous, in order, and cover the string from 0.
C10_TokenizeTotal ==
  pc = "lexer" =>
    LET yielded == lx_tokens
        out == tokenize(lx_tokens)
        len == Len(lx_string)
    IN /\ lx_error # NoLexError =>
            /\ ~LexDone
            /\ 0 <= lx_error.start /\ lx_error.start < len
            /\ lx_error.start <= lx_error.end /\ lx_error.end <= len
       /\ \A i \in 1..Len(out) : out[i].cls # "WhitespaceToken"
       /\ \A i \in 1..Len(yielded) :
            /\ yielded[i].start = (IF i = 1 THEN 0 ELSE yielded[i - 1].end)
            /\ yielded[i].cls # "EndQueryToken" => yielded[i].start < yielded[i].end
            /\ yielded[i].cls = "EndQueryToken" => i = Len(yielded)
       /\ \A i \in 1..Len(out) :
            OnlyWhitespace(lx_string, IF i = 1 THEN 0 ELSE out[i - 1].end, out[i].start)
       /\ LexDone =>
            /\ lx_error = NoLexError
            /\ out[Len(out)] = Token("EndQueryToken", len, len)
            /\ \A i \in 1..(Len(out) - 1) : out[i].cls # "EndQueryToken"

\* C10's case: the lexer is done with a string in which it skipped whitespace
\* between two tokens
C10_Witness ==
  /\ pc = "lexer"
  /\ LexDone
  /\ Len(tokenize(lx_tokens)) >= 3
  /\ \E i \in 1..Len(lx_tokens) : lx_tokens[i].cls = "WhitespaceToken"

(***************************************************************************)
(* Properties of the Aggregate classes.                                    *)
(***************************************************************************)
\* the values of a sequence that are not NULL, in order
NonNull(values) == SelectSeq(values, LAMBDA v : v # NULL)

RECURSIVE SumOf(_)
\* the sum of a sequence of numbers, the integer 0 for the empty one
SumOf(values) ==
  IF values = <<>> THEN Num(0)
  ELSE LET rest == SumOf(Tail(values))
       IN Frac(Head(values).n * rest.d + rest.n * Head(values).d, Head(values).d * rest.d)

\* v is the least (greatest when sign = -1) of a non-empty sequence of numbers
IsExtremum(v, values, sign) ==
  /\ \E i \in 1..Len(values) : values[i] = v
  /\ \A i \in 1..Len(values) : sign * v.n * values[i].d <= sign * values[i].n * v.d

\* C11: after clear() and any sequence of add calls, COUNT's value is the number
\* of inputs that are not NULL, SUM's is their sum (0 if there is none), MIN's and
\* MAX's is the least and the greatest of them (NULL if there is none), AVG's is
\* their sum divided by their number (NULL if there is none); a NULL input
\* changes no accumulator.
C11_AggregateValues ==
  pc = "aggregate" =>
    LET inputs == NonNull(ag_added)
        value == AggValue(ag)
    IN /\ ag.cls = "count" => value = Num(Len(inputs))
       /\ ag.cls = "sum" => value = SumOf(inputs)
       /\ ag.cls \in {"min", "max"} =>
            IF inputs = <<>> THEN value = NULL
            ELSE IsExtremum(value, inputs, IF ag.cls = "min" THEN 1 ELSE -1)
       /\ ag.cls = "avg" =>
            IF inputs = <<>> THEN value = NULL
            ELSE value = Frac(SumOf(inputs).n, SumOf(inputs).d * Len(inputs))
       /\ AggAdd(ag, NULL) = ag

\* C11's case: an AVG that was fed a NULL between two numbers and whose value is
\* no integer
C11_Witness ==
  /\ pc = "aggregate"
  /\ ag.cls = "avg"
  /\ Len(ag_added) = 3
  /\ ag_added[2] = NULL
  /\ ag_added[1] # NULL
  /\ ag_added[3] # NULL
  /\ AggValue(ag).d = 2

(***************************************************************************)
(* Properties of the order and the slice of a result.                      *)
(***************************************************************************)
\* the one-to-one maps from 1..m into 1..n
InjectiveMaps(m, n) == {p \in [1..m -> 1..n] : \A i, j \in 1..m : p[i] = p[j] => i = j}

\* in a column of the direction, x may stand before y: NULL is before every other
\* value in an ascending column and after every other value in a descending one
MayPrecede(direction, x, y) ==
  \/ x = y
  \/ direction = ASC /\ (x = NULL \/ (y # NULL /\ x.n * y.d < y.n * x.d))
  \/ direction = DESC /\ (y = NULL \/ (x # NULL /\ x.n * y.d > y.n * x.d))

\* key a is not greater than key b, columns compared left to right
KeyNotGreater(directions, a, b) ==
  \A i \in 1..Len(directions) :
    (\A j \in 1..(i - 1) : a[j] = b[j]) => MayPrecede(directions[i], a[i], b[i])

\* C12: the rows of a result are rows the query kept, and of two adjacent result
\* rows the earlier one's ORDER BY key is not greater than the later one's, each
\* column under its own direction, NULL first in ASC and last in DESC.
C12_ResultOrderedByKey ==
  pc = "show" =>
    \E p \in InjectiveMaps(Len(table.rows), Len(rows)) :
      /\ \A i \in 1..Len(table.rows) : table.rows[i] = rows[p[i]]
      /\ \A i \in 1..(Len(table.rows) - 1) :
           KeyNotGreater(Directions(query.order), keys[p[i]].row, keys[p[i + 1]].row)

\* C12's case: a result of three rows under a two-column key whose first column
\* is descending, with a NULL and a number in the second column
C12_Witness ==
  /\ pc = "show"
  /\ Directions(query.order) = <<DESC, ASC>>
  /\ Len(table.rows) = 3
  /\ \E i, j \in 1..3 : keys[i].row[2] = NULL /\ keys[j].row[2] # NULL
  /\ \E i, j \in 1..3 : keys[i].row[1] # keys[j].row[1]

\* the smaller of two numbers, and the larger
Min2(a, b) == IF a < b THEN a ELSE b
Max2(a, b) == IF a > b THEN a ELSE b

\* C13: with a non-negative offset o and limit l the result is the sorted rows at
\* the positions [o, o + l), all the rows from o on when there is no LIMIT: its
\* length is min(l, max(0, n - o)) and the order of the kept rows is unchanged.
C13_SliceIsOffsetThenLimit ==
  (pc = "show" /\ query.offset.val.tag = "num" /\ query.limit.val.tag \in {"num", "inf"}) =>
    LET all == SortedRows(keys, rows)
        o == query.offset.val.n
        rest == Max2(0, Len(all) - o)
        len == IF query.limit.val = INF THEN rest ELSE Min2(query.limit.val.n, rest)
    IN table.rows = [i \in 1..len |-> all[o + i]]

\* C13's case: LIMIT 1 OFFSET 1 over three sorted rows that differ
C13_Witness ==
  /\ pc = "show"
  /\ query.offset = one
  /\ query.limit = one
  /\ Len(rows) = 3
  /\ table.rows = <<SortedRows(keys, rows)[2]>>
  /\ SortedRows(keys, rows)[1] # SortedRows(keys, rows)[2]

(***************************************************************************)
(* Properties of DirectoryWalker.walk.                                     *)
(***************************************************************************)
\* os.listdir on the entry fails for lack of permission
Denied(entry) == entry.listdir \in {"EACCES", "EPERM"}

\* the paths of the directories a walk from the root gets to: the root and the
\* directories in it that are no links
WalkedDirs ==
  {<<>>} \cup {<<i>> : i \in {j \in 1..Len(wk_root.names) : wk_root.names[j].kind = "dir"}}

\* C14: a directory whose listing is denied for lack of permission is skipped:
\* the walk does not raise, records its path in forbidden_paths and goes on, so
\* that at the end every name of every other directory has been yielded; a root
\* that does not exist raises DirectoryDoesNotExistError.
C14_WalkSkipsForbidden ==
  pc = "walk" =>
    /\ wk_error # NoWalkError => ~Denied(EntryAt(wk_root, wk_error.path))
    /\ (wk_stack = <<>> /\ wk_root.listdir = "ENOENT") =>
         wk_error = [kind |-> "DirectoryDoesNotExistError", path |-> <<>>]
    /\ (wk_stack = <<>> /\ wk_root.listdir # "ENOENT") =>
         /\ wk_error = NoWalkError
         /\ {wk_forbidden[i] : i \in 1..Len(wk_forbidden)}
              = {d \in WalkedDirs : Denied(EntryAt(wk_root, d))}
         /\ {wk_yielded[i].path : i \in 1..Len(wk_yielded)}
              = UNION {{Append(d, n) : n \in 1..Len(EntryAt(wk_root, d).names)} :
                        d \in {w \in WalkedDirs : ~Denied(EntryAt(wk_root, w))}}

(***************************************************************************)
(* Properties of QueryNode.create.                                         *)
(***************************************************************************)
RECURSIVE HasAggregateCall(_)
\* some call in the tree is a call of an aggregate function, in whatever case
\* the name is written
HasAggregateCall(node) ==
  \/ node.kind \in {"Function", "AggFunction"} /\ prepare_key(node.name) \in AGGREGATES
  \/ \E i \in 1..Len(node.children) : HasAggregateCall(node.children[i])

\* no Query node was produced and no row was read
RejectedAtCreate ==
  /\ query = NoQuery
  /\ fi = 0
  /\ filtered_rows = <<>>
  /\ rows = <<>>

\* C15: a query with an aggregate call anywhere in WHERE is rejected when the
\* Query is constructed, one with an aggregate call anywhere in GROUP BY is
\* rejected with IllegalGroupBy then; no Query node is produced, no row is read.
C15_AggregatesRejectedAtCreate ==
  (pc # "main" /\ frontend = NoExc) =>
    /\ HasAggregateCall(raw.where) => exc.kind = "LsqlEvalError" /\ RejectedAtCreate
    /\ (~HasAggregateCall(raw.where) /\ HasAggregateCall(raw.group)) =>
         exc.kind = "IllegalGroupBy" /\ RejectedAtCreate

(***************************************************************************)
(* String literals.                                                        *)
(***************************************************************************)
RECURSIVE Unescaped(_)
\* the characters of a literal with every doubled quote replaced by one quote
Unescaped(chars) ==
  IF chars = <<>> THEN <<>>
  ELSE IF Len(chars) >= 2 /\ chars[1] = "'" /\ chars[2] = "'"
       THEN <<"'">> \o Unescaped(SubSeq(chars, 3, Len(chars)))
       ELSE <<chars[1]>> \o Unescaped(Tail(chars))

\* C16: the value of a string literal is the text between its outer quotes with
\* each doubled quote replaced by one quote: 'te''st' is the five characters te'st
C16_StringLiteralUnescaped ==
  \A i \in 1..Len(lx_tokens) :
    lx_tokens[i].cls = "StringToken" =>
      StringTokenPrefix(lx_string, lx_tokens[i])
        = Unescaped(SubSeq(lx_string, lx_tokens[i].start + 2, lx_tokens[i].end - 1))

(***************************************************************************)
(* NOT in the WHERE clause of lsql.run_query.                              *)
(***************************************************************************)
\* NOT negates a value that is NULL, or a comparison with a NULL operand
NegatesNull(condition, stat) ==
  /\ condition[1] = NOT
  /\ \E k \in 2..Len(condition) :
       condition[k].kind # "bin_op" /\ eval_value(condition[k], stat) = LsqlNULL

\* C17: a condition prefixed by NOT is not true when the negated value is NULL
\* or an operand of the negated comparison is NULL, so the row is not kept
C17_NotOfNullKeepsNoRow ==
  (cd_kept # "" /\ \E k \in 1..Len(cd_condition) : NegatesNull(cd_condition[k], cd_stat))
    => cd_kept = "skipped"

(***************************************************************************)
(* The rendering of an Interval.                                           *)
(***************************************************************************)
\* the days, hours, minutes and seconds of n seconds
Components(n) ==
  << <<n \div 86400, "day">>,
     <<(n % 86400) \div 3600, "hour">>,
     <<(n % 3600) \div 60, "minute">>,
     <<n % 60, "second">> >>

\* the first three of the components that are not zero, '<count> <unit>' each
\* with the unit in the plural unless the count is 1
Rendering(n) ==
  LET nonzero == SelectSeq(Components(n), LAMBDA c : c[1] # 0)
      shown == SubSeq(nonzero, 1, IF Len(nonzero) < 3 THEN Len(nonzero) ELSE 3)
  IN [k \in 1..Len(shown) |->
        ToString(shown[k][1]) \o " " \o shown[k][2] \o (IF shown[k][1] = 1 THEN "" ELSE "s")]

\* C18: str(Interval(n)) lists the components of n that are not zero among days,
\* hours, minutes, seconds in that order, at most three of them, and at least one
\* when n >= 1
C18_IntervalRendering ==
  iv_str # <<>> =>
    /\ iv_str[1] = Join(", ", Rendering(iv_self))
    /\ iv_self >= 1 => iv_str[1] # ""

(***************************************************************************)
(* The columns of the files table in a query.                              *)
(***************************************************************************)
\* C19: every column of Stat.ATTRS can be named in a query: the lexer makes one
\* NameToken of it (which NameToken.prefix turns into the NameNode of the column)
C19_ColumnsAreNames ==
  (lx_string \in ATTRS /\ LexStopped) =>
    /\ lx_error = NoLexError
    /\ tokenize(lx_tokens) = <<Token("NameToken", 0, Len(lx_string)),
                               Token("EndQueryToken", Len(lx_string), Len(lx_string))>>

(***************************************************************************)
(* Binding powers and the shape of the parsed expression.                  *)
(***************************************************************************)
\* the tokens before the EndQueryToken
Expression == SubSeq(ps_tokens, 1, Len(ps_tokens) - 1)

IsPrimary(token) == token.cls \in {"NumberToken", "NameToken"}
IsInfix(token) == token.cls \in DOMAIN operator_name \cup {"AndToken", "OrToken"}
IsUnary(token) == token.cls \in {"PlusToken", "MinusToken"}

\* the node of a number or a name
PrimaryNode(token) ==
  IF token.cls = "NumberToken" THEN ValueNode(NumberValue(token.text))
  ELSE NameNode(token.text)

\* the node of left operator right
InfixNode(token, left, right) ==
  CASE token.cls = "AndToken" -> AndNode(left, right)
    [] token.cls = "OrToken" -> OrNode(left, right)
    [] OTHER -> FunctionNode(operator_name[token.cls], <<left, right>>)

\* the node of a unary operator and its operand
UnaryNode(token, operand) ==
  IF token.cls = "MinusToken" THEN FunctionNode("negate", <<operand>>) ELSE operand

\* a node of an infix operator; its right binding power
IsInfixNode(node) ==
  \/ node.kind \in {"And", "Or"}
  \/ node.kind = "Function" /\ Len(node.children) = 2

PowerOf(node) ==
  CASE node.kind = "And" -> RIGHT_BINDING_POWERS["AndToken"]
    [] node.kind = "Or" -> RIGHT_BINDING_POWERS["OrToken"]
    [] OTHER -> RIGHT_BINDING_POWERS[CHOOSE cls \in DOMAIN operator_name :
                                       operator_name[cls] = node.name]

RECURSIVE FollowsTable(_)
\* in a tree parsed from tokens without parentheses: the left operand of an infix
\* operator holds no operator that binds less tightly, the right operand only
\* operators that bind more tightly, and the operand of a unary minus no infix
\* operator at all
FollowsTable(node) ==
  /\ IsInfixNode(node) =>
       /\ IsInfixNode(node.children[1]) => PowerOf(node.children[1]) >= PowerOf(node)
       /\ IsInfixNode(node.children[2]) => PowerOf(node.children[2]) > PowerOf(node)
  /\ (node.kind = "Function" /\ node.name = "negate") => ~IsInfixNode(node.children[1])
  /\ \A k \in 1..Len(node.children) : FollowsTable(node.children[k])

\* a op1 b op2 c
TwoInfix(e) ==
  /\ Len(e) = 5
  /\ IsPrimary(e[1]) /\ IsInfix(e[2]) /\ IsPrimary(e[3]) /\ IsInfix(e[4]) /\ IsPrimary(e[5])

\* a unary operator before a op b
UnaryThenInfix(e) ==
  /\ Len(e) = 4
  /\ IsUnary(e[1]) /\ IsPrimary(e[2]) /\ IsInfix(e[3]) /\ IsPrimary(e[4])

\* C20: in a op1 b op2 c the operator with the higher right binding power takes b,
\* and op1 takes it when the powers are equal; a unary + or - takes the primary
\* that follows it and nothing more; every tree parsed from tokens without
\* parentheses is nested the way the binding powers say
C20_BindingPowers ==
  (ps_node # None \/ ps_error # "") =>
    LET e == Expression
    IN /\ TwoInfix(e) =>
            ps_node =
              IF RIGHT_BINDING_POWERS[e[4].cls] > RIGHT_BINDING_POWERS[e[2].cls]
              THEN InfixNode(e[2], PrimaryNode(e[1]),
                             InfixNode(e[4], PrimaryNode(e[3]), PrimaryNode(e[5])))
              ELSE InfixNode(e[4], InfixNode(e[2], PrimaryNode(e[1]), PrimaryNode(e[3])),
                             PrimaryNode(e[5]))
       /\ UnaryThenInfix(e) =>
            ps_node = InfixNode(e[3], UnaryNode(e[1], PrimaryNode(e[2])), PrimaryNode(e[4]))
       /\ (\A k \in 1..Len(e) : IsPrimary(e[k]) \/ IsInfix(e[k])) => FollowsTable(ps_node)

\* 1 + 7 * 3 has been parsed to 1 + (7 * 3)
C20_Witness ==
  /\ TwoInfix(Expression)
  /\ Expression[2].cls = "PlusToken" /\ Expression[4].cls = "MulToken"
  /\ Expression[3].text = "7"
  /\ ps_node = FunctionNode("+", <<ValueNode(Num(1)),
                                   FunctionNode("*", <<ValueNode(Num(7)), ValueNode(Num(3))>>)>>)

(***************************************************************************)
(* The upper bound of BETWEEN.                                             *)
(***************************************************************************)
\* a BETWEEN b AND c op d, where op binds less tightly than BETWEEN
BetweenThenInfix(e) ==
  /\ Len(e) = 7
  /\ IsPrimary(e[1]) /\ e[2].cls = "BetweenToken" /\ IsPrimary(e[3]) /\ e[4].cls = "AndToken"
  /\ IsPrimary(e[5]) /\ IsInfix(e[6]) /\ IsPrimary(e[7])
  /\ RIGHT_BINDING_POWERS[e[6].cls] < RIGHT_BINDING_POWERS["BetweenToken"]

\* C21: the upper bound of BETWEEN does not absorb a following operator of lower
\* precedence: a BETWEEN b AND c op d is (a BETWEEN b AND c) op d, so
\* x BETWEEN 2 AND 4 AND y = 1 is And(Between(x, 2, 4), y = 1)
C21_BetweenUpperBound ==
  (ps_node # None \/ ps_error # "") =>
    LET e == Expression
    IN BetweenThenInfix(e) =>
         ps_node = InfixNode(e[6], BetweenNode(PrimaryNode(e[1]), PrimaryNode(e[3]),
                                               PrimaryNode(e[5])),
                             PrimaryNode(e[7]))

(***************************************************************************)
(* A query without ORDER BY and without grouping.                          *)
(***************************************************************************)
\* C22: without ORDER BY and without grouping the result is the rows at the
\* positions [offset, offset + limit) of the projected rows of the filtered
\* stream, in the order of the row source, so that the scan could stop after
\* offset + limit rows have passed the filter
C22_UnorderedResultIsStreamSlice ==
  (/\ pc = "show"
   /\ query.group.kind = "FakeGroup"
   /\ query.order.children = <<>>
   /\ query.offset.val.tag = "num"
   /\ query.limit.val.tag \in {"num", "inf"})
  => LET o == query.offset.val.n
         rest == Max2(0, Len(rows) - o)
         len == IF query.limit.val = INF THEN rest ELSE Min2(query.limit.val.n, rest)
     IN table.rows = [i \in 1..len |-> rows[o + i]]

(***************************************************************************)
(* The order of the clauses.                                               *)
(***************************************************************************)
\* the position of a clause head in the fixed order, 0 for another token
ClauseRank(token) ==
  IF \E k \in 1..Len(ClauseTokens) : ClauseTokens[k] = token.cls
  THEN CHOOSE k \in 1..Len(ClauseTokens) : ClauseTokens[k] = token.cls
  ELSE 0

\* the clause heads of the query stand in the fixed order, none of them twice
HeadsInOrder(tokens) ==
  \A i, j \in 1..Len(tokens) :
    (i < j /\ ClauseRank(tokens[i]) > 0 /\ ClauseRank(tokens[j]) > 0)
      => ClauseRank(tokens[i]) < ClauseRank(tokens[j])

\* C23: a query whose clauses stand in the order SELECT, FROM, WHERE, GROUP BY,
\* HAVING, ORDER BY, LIMIT, OFFSET, each at most once, is accepted (the empty
\* query too); a query with a clause head out of order or twice builds no Query
\* and fails with the UnexpectedTokenError that expected the EndQueryToken
C23_ClauseOrder ==
  pc = "parse" =>
    IF HeadsInOrder(pq_tokens)
    THEN pq_error = <<>> /\ (pq_query # NoQuery => pq_query.error = "")
    ELSE /\ pq_query = NoQuery
         /\ pq_clause <= Len(ClauseTokens) + 1
         /\ pq_error \in {<<>>, <<"UnexpectedTokenError", "EndQueryToken">>}

(***************************************************************************)
(* The errors of the expression parser.                                    *)
(***************************************************************************)
\* Token.implemented_prefix, for the token classes of the expressions
implemented_prefix(cls) ==
  cls \in {"NumberToken", "NameToken", "MinusToken", "PlusToken", "OpeningParenToken"}

\* Token.implemented_suffix, for the token classes of the expressions
implemented_suffix(cls) ==
  cls \in DOMAIN operator_name \cup {"AndToken", "OrToken", "BetweenToken", "OpeningParenToken"}

\* an expression must start at token i: at the first token, after an operator
\* or BETWEEN, after the parenthesis of a group, and after the parenthesis of a
\* call that is not closed at once
RECURSIVE ExpressionStartsAt(_, _)
ExpressionStartsAt(tokens, i) ==
  \/ i = 1
  \/ /\ i > 1
     /\ \/ tokens[i - 1].cls \in DOMAIN operator_name \cup {"AndToken", "OrToken", "BetweenToken"}
        \/ /\ tokens[i - 1].cls = "OpeningParenToken"
           /\ \/ tokens[i].cls # "ClosingParenToken"
              \/ ExpressionStartsAt(tokens, i - 1)

\* the place in the list of the token an exception of the parser carries: the
\* token whose prefix was called, else the current token
CarriedToken ==
  IF ps_error = "ValueExpectedError" THEN ps_index ELSE ps_index + 1

\* C24: the errors of the expression parser go by position: a token without
\* prefix where an expression must start gives ValueExpectedError with that
\* token, a token without right binding power and without suffix after a
\* complete expression gives OperatorExpectedError with that token, running
\* past the last token gives UnexpectedEndError, and the index of the parser
\* stays inside the list of tokens
C24_ErrorsByPosition ==
  pc = "parser" =>
    /\ ps_index \in 0..(Len(ps_tokens) - 1)
    /\ ps_error = "ValueExpectedError" =>
         /\ ps_index >= 1
         /\ ~implemented_prefix(ps_tokens[ps_index].cls)
    /\ ps_error = "OperatorExpectedError" =>
         /\ ps_tokens[ps_index + 1].cls \notin DOMAIN RIGHT_BINDING_POWERS
         /\ ~implemented_suffix(ps_tokens[ps_index + 1].cls)
    /\ ps_error = "UnexpectedEndError" => ps_index + 1 = Len(ps_tokens)
    /\ ( /\ ps_error \in {"ValueExpectedError", "OperatorExpectedError", "UnexpectedTokenError"}
         /\ CarriedToken < Len(ps_tokens)
         /\ ExpressionStartsAt(ps_tokens, CarriedToken)
         /\ ~implemented_prefix(ps_tokens[CarriedToken].cls) )
       => ps_error = "ValueExpectedError"

\* C29: the assert of OpeningParenToken.suffix, that the node to the left of the
\* parenthesis of a call is a NameNode, fails for no list of tokens: where the
\* left node is not a name the parser has raised one of its own errors before
C29_CallParenAfterName ==
  pc = "parser" => ps_error # "AssertionError"

(***************************************************************************)
(* The operators of the lexer.                                             *)
(***************************************************************************)
\* the strings of _add_operators
OperatorStrings == {OperatorRules[k].pattern : k \in 1..Len(OperatorRules)}

\* the characters of s from offset p up to offset q
Slice(s, p, q) == SubSeq(s, p + 1, q)

\* the longest runs of operator characters of s, as pairs of offsets
MaximalRuns(s) ==
  {run \in (0..Len(s)) \X (0..Len(s)) :
     /\ run[1] < run[2]
     /\ \A i \in (run[1] + 1)..run[2] : InClass(s[i], "operator")
     /\ run[1] = 0 \/ ~InClass(s[run[1]], "operator")
     /\ run[2] = Len(s) \/ ~InClass(s[run[2] + 1], "operator")}

\* the tokens of the operator classes among the tokens so far
OperatorTokens ==
  {lx_tokens[i] : i \in {j \in 1..Len(lx_tokens) :
      \E k \in 1..Len(OperatorRules) : OperatorRules[k].cls = lx_tokens[j].cls}}

\* C27: the lexer splits no run of operator characters: each operator token is a
\* longest run of operator characters and one of the strings of _add_operators,
\* a longest run the lexer comes to that is one of these strings is one token,
\* and at a longest run that is none of them the lexer raises CantTokenizeError
\* at the start of the run
C27_OperatorRuns ==
  pc = "lexer" =>
    /\ \A token \in OperatorTokens :
         /\ <<token.start, token.end>> \in MaximalRuns(lx_string)
         /\ Slice(lx_string, token.start, token.end) \in OperatorStrings
    /\ \A run \in MaximalRuns(lx_string) :
         /\ (lx_start > run[1] \/ (lx_start = run[1] /\ lx_error # NoLexError)) =>
              \/ \E i \in 1..Len(lx_tokens) :
                   /\ lx_tokens[i].start = run[1] /\ lx_tokens[i].end = run[2]
                   /\ Slice(lx_string, run[1], run[2]) \in OperatorStrings
              \/ \E i \in 1..Len(lx_tokens) :
                   /\ lx_tokens[i].start < run[1] /\ lx_tokens[i].end >= run[2]
                   /\ lx_tokens[i].cls \in {"NumberToken", "StringToken"}
              \/ /\ lx_error.kind = "CantTokenizeError"
                 /\ lx_error.start = run[1]
                 /\ Slice(lx_string, run[1], run[2]) \notin OperatorStrings
              \/ lx_error # NoLexError /\ lx_error.start < run[1]

\* a run of two operator characters has become one token, or a run of three has
\* been refused at its start
C27_Witness ==
  /\ pc = "lexer"
  /\ \/ \E token \in OperatorTokens : token.end = token.start + 2
     \/ /\ lx_error # NoLexError
        /\ lx_error.kind = "CantTokenizeError"
        /\ <<lx_error.start, lx_error.start + 3>> \in MaximalRuns(lx_string)

(***************************************************************************)
(* The group child of a created query.                                     *)
(***************************************************************************)
\* C25: a created query always has a group child: the parsed Group where GROUP BY
\* is given; without GROUP BY the empty Group where select, order or having holds
\* an aggregate call or HAVING is given, and FakeGroup otherwise; a query with
\* FakeGroup holds no aggregate node in select, having and order
C25_GroupChild ==
  (pc # "main" /\ frontend = NoExc /\ query # NoQuery) =>
    /\ query.group # None
    /\ raw.group # None => query.group = raw.group
    /\ raw.group = None =>
         query.group = IF \/ HasAggregateCall(raw.select)
                          \/ HasAggregateCall(raw.order)
                          \/ HasAggregateCall(raw.having)
                          \/ raw.having # None
                       THEN GroupNode(<<>>)
                       ELSE FakeGroupNode
    /\ query.group = FakeGroupNode => QueryAggNodes(query) = {}

(***************************************************************************)
(* The groups of the filtered rows.                                        *)
(***************************************************************************)
\* the tuple of the values of the GROUP BY expressions for a row
GroupKey(row) ==
  get_values(query.group.children, "list", RowContext(row), <<>>, <<>>).vals

\* the places of the filtered rows that grouped holds, each as often as it occurs
RECURSIVE RowsOfGroups(_)
RowsOfGroups(g) ==
  IF g = 0 THEN <<>> ELSE RowsOfGroups(g - 1) \o grouped[g].rows

\* how often a row occurs in a list of rows
Occurrences(row, list) == Cardinality({i \in 1..Len(list) : list[i] = row})

\* C26: the groups partition the rows that passed WHERE: every such row is in one
\* group and no more, two rows are in one group exactly if their tuples of GROUP
\* BY values are equal (NULL equal to NULL), without HAVING the result before
\* sort and slice has one row for each distinct tuple, and with FakeGroup one
\* row for each filtered row
C26_GroupsPartitionRows ==
  /\ (pc \in {"groups", "consume", "sort"} /\ query.group.kind = "Group") =>
       /\ \A i \in 1..Len(filtered_rows) :
            Occurrences(filtered_rows[i], RowsOfGroups(Len(grouped)))
              = Occurrences(filtered_rows[i], filtered_rows)
       /\ Len(RowsOfGroups(Len(grouped))) = Len(filtered_rows)
       /\ \A g \in 1..Len(grouped) :
            \A i \in 1..Len(grouped[g].rows) : GroupKey(grouped[g].rows[i]) = grouped[g].key
       /\ \A g, h \in 1..Len(grouped) : grouped[g].key = grouped[h].key => g = h
  /\ (pc = "sort" /\ query.group.kind = "Group" /\ raw.having = None) =>
       Len(rows) = Cardinality({GroupKey(filtered_rows[i]) : i \in 1..Len(filtered_rows)})
  /\ (pc = "sort" /\ query.group.kind = "FakeGroup") => Len(rows) = Len(filtered_rows)

\* two rows that passed WHERE have fallen into one group of a GROUP BY
C26_Witness ==
  /\ pc = "sort"
  /\ query.group.kind = "Group"
  /\ query.group.children # <<>>
  /\ raw.having = None
  /\ Len(filtered_rows) = 2
  /\ Len(rows) = 1

(***************************************************************************)
(* Aggregates without GROUP BY.                                            *)
(***************************************************************************)
\* C28: a query with an aggregate in SELECT, without GROUP BY and HAVING (and
\* without LIMIT and OFFSET) returns one row, whatever the number of rows that
\* passed WHERE, zero included; over zero rows the row holds the value of each
\* aggregate that was fed nothing: 0 for count and sum, NULL for min, max, avg
C28_AggregateWithoutGroupGivesOneRow ==
  (/\ pc = "show"
   /\ raw.group = None
   /\ raw.having = None
   /\ raw.limit = None
   /\ raw.offset = None
   /\ AggNodes(query.select) # {})
  => /\ Len(table.rows) = 1
     /\ filtered_rows = <<>> =>
          \A i \in 1..Len(query.select.children) :
            query.select.children[i].kind = "AggFunction" =>
              table.rows[1][i] = AggValue(NewAggregate(query.select.children[i].name))

====
